---- MODULE Spec2Model ----
(***************************************************************************)
(* Resilience and choreography layer of the mini-shop services:            *)
(*   - order-service/circuitbreaker: CircuitBreaker.Execute                *)
(*   - order-service/kafka: saga consumer projecting payment outcomes      *)
(*   - payment-service/kafka: payment consumer (simulatePayment)           *)
(***************************************************************************)
EXTENDS Integers, Sequences, FiniteSets, TLC

(***************************************************************************)
(* Bounds of the model.                                                    *)
(***************************************************************************)
MaxFailuresBound == 3
MaxResetTimeout == 1
MaxTime == 4
NumCallers == 2
MaxOrders == 2
MaxBus == 3
FirstOrderId == 4
MaxRestarts == 1
MaxNano == 1
MaxUsers == 1
MaxApply == 2
MaxRetriesBound == 3
MaxNotifyMsgs == 2
MaxNotifyRuns == 2
MaxRequests == 3
MaxSets == 2

VARIABLES
    cb,        \* the CircuitBreaker struct (circuitbreaker.go:18-25), without mu
    mu,        \* holder of cb.mu, NoOwner when unlocked
    now,       \* wall clock read by time.Since / time.Now
    pc,        \* position of each goroutine calling Execute
    call,      \* per caller: what the current Execute call saw and returned
    failRun,   \* history: length of the current run of consecutive failed operations
    longRun,   \* history: some run of consecutive failures reached maxFailures
    rejected,  \* history: some call returned ErrCircuitOpen
    seqcb,     \* history: breaker obtained by running the completed calls one after another
    orders,    \* the orders table: id -> row
    payments,  \* the payments table, in insertion order (id = position)
    bus,       \* the order_events topic (one partition), an append-only log
    procs,     \* orders whose processPayment goroutine has been started and has not published
    payPos,    \* payment consumer group: offset of the next message of the claim
    payMarked, \* payment consumer group: offset marked by session.MarkMessage
    payCommitted, \* payment consumer group: offset committed to the broker
    restarts,  \* number of restarts of the payment consumer so far
    sagaPos,   \* saga consumer: offset of the next message of the partition consumer
    paymentSuccessRate, \* payment-service package variable, in percent
    hist,      \* history of the deliveries and the outcome of each order
    fn,        \* inputs and results of a handler applied on its own
    note,      \* the notification consumer: its partition, position and retry loop
    svc        \* the payment-service process: main, its consumer goroutine, the claim

cbvars == <<cb, mu, now, pc, call, failRun, longRun, rejected, seqcb>>

sagavars == <<orders, payments, bus, procs, payPos, payMarked, payCommitted, restarts,
              sagaPos, paymentSuccessRate, hist>>

vars == <<cb, mu, now, pc, call, failRun, longRun, rejected, seqcb,
          orders, payments, bus, procs, payPos, payMarked, payCommitted, restarts,
          sagaPos, paymentSuccessRate, hist, fn, note, svc>>

(***************************************************************************)
(* circuitbreaker.go                                                       *)
(***************************************************************************)
StateClosed == 0
StateOpen == 1
StateHalfOpen == 2

ZeroTime == -1        \* the zero time.Time of a breaker that never failed
NoOwner == 0
Callers == 1..NumCallers

ErrCircuitOpen == "ErrCircuitOpen"
ErrOperation == "err"
NoError == "nil"
Pending == "pending_call"

NewCircuitBreaker(maxFailures, resetTimeout) ==
    [maxFailures |-> maxFailures, resetTimeout |-> resetTimeout,
     failureCount |-> 0, lastFailureTime |-> ZeroTime, state |-> StateClosed]

\* time.Since(t) at clock value n; the zero time is centuries back
Since(t, n) == IF t = ZeroTime THEN MaxTime + MaxResetTimeout + 2 ELSE n - t

\* Variant of ExecuteCheck: a rejected call refreshes lastFailureTime
ExecuteCheck_touch(c, n) ==
    IF c.state = StateOpen
    THEN IF Since(c.lastFailureTime, n) > c.resetTimeout
         THEN [cb |-> [c EXCEPT !.state = StateHalfOpen, !.failureCount = 0], open |-> FALSE]
         ELSE [cb |-> [c EXCEPT !.lastFailureTime = n], open |-> TRUE]
    ELSE [cb |-> c, open |-> FALSE]

\* Variant of ExecuteCheck: the probe starts with the failure count it found
ExecuteCheck_keepcount(c, n) ==
    IF c.state = StateOpen
    THEN IF Since(c.lastFailureTime, n) > c.resetTimeout
         THEN [cb |-> [c EXCEPT !.state = StateHalfOpen], open |-> FALSE]
         ELSE [cb |-> c, open |-> TRUE]
    ELSE [cb |-> c, open |-> FALSE]

\* Execute, lines 44-51: the Open check. open = TRUE is "return ErrCircuitOpen".
ExecuteCheck(c, n) ==
    IF c.state = StateOpen
    THEN IF Since(c.lastFailureTime, n) > c.resetTimeout
         THEN [cb |-> [c EXCEPT !.state = StateHalfOpen, !.failureCount = 0], open |-> FALSE]
         ELSE [cb |-> c, open |-> TRUE]
    ELSE [cb |-> c, open |-> FALSE]

\* Variant of RecordFailure: opens only above maxFailures
RecordFailure_gt(c, n) ==
    LET c1 == [c EXCEPT !.failureCount = c.failureCount + 1, !.lastFailureTime = n]
    IN  IF c1.failureCount > c1.maxFailures
        THEN [c1 EXCEPT !.state = StateOpen]
        ELSE IF c1.state = StateHalfOpen
             THEN [c1 EXCEPT !.state = StateOpen]
             ELSE c1

\* Variant of RecordFailure: a failed probe does not reopen below maxFailures
RecordFailure_noprobe(c, n) ==
    LET c1 == [c EXCEPT !.failureCount = c.failureCount + 1, !.lastFailureTime = n]
    IN  IF c1.failureCount >= c1.maxFailures
        THEN [c1 EXCEPT !.state = StateOpen]
        ELSE c1

\* Execute, lines 56-66: fn returned an error at clock value n
RecordFailure(c, n) ==
    LET c1 == [c EXCEPT !.failureCount = c.failureCount + 1, !.lastFailureTime = n]
    IN  IF c1.failureCount >= c1.maxFailures
        THEN [c1 EXCEPT !.state = StateOpen]
        ELSE IF c1.state = StateHalfOpen
             THEN [c1 EXCEPT !.state = StateOpen]
             ELSE c1

\* Variant of RecordSuccess: a success while Closed keeps the count
RecordSuccess_keep(c) ==
    CASE c.state = StateHalfOpen -> [c EXCEPT !.state = StateClosed, !.failureCount = 0]
      [] OTHER                   -> c

\* Variant of RecordSuccess: a successful probe does not close the breaker
RecordSuccess_noclose(c) ==
    CASE c.state = StateHalfOpen -> [c EXCEPT !.failureCount = 0]
      [] c.state = StateClosed   -> [c EXCEPT !.failureCount = 0]
      [] OTHER                   -> c

\* Execute, lines 68-77: fn returned nil
RecordSuccess(c) ==
    CASE c.state = StateHalfOpen -> [c EXCEPT !.state = StateClosed, !.failureCount = 0]
      [] c.state = StateClosed   -> [c EXCEPT !.failureCount = 0]
      [] OTHER                   -> c

\* Execute, lines 54-78: the update after fn returned (ok = "err == nil")
ExecuteRecord(c, ok, n) == IF ok THEN RecordSuccess(c) ELSE RecordFailure(c, n)

\* Variant of MutexFree: Lock never blocks
MutexFree_nolock(m) == TRUE

\* cb.mu.Lock() returns only when nobody holds the mutex
MutexFree(m) == m = NoOwner

NoCall == [pre |-> NewCircuitBreaker(1, 0), preNow |-> 0, invoked |-> 0,
           fnOk |-> FALSE, ret |-> Pending, retNow |-> 0, got |-> {}]

\* One whole Execute call run without interruption: check at tc, fn result ok, update at tu
ExecuteSeq(c, tc, ok, tu) ==
    LET chk == ExecuteCheck(c, tc)
    IN  IF chk.open THEN c ELSE ExecuteRecord(chk.cb, ok, tu)

(***************************************************************************)
(* Order and payment models                                                *)
(***************************************************************************)
OrderStatusPending == "pending"
OrderStatusPaid == "paid"
OrderStatusFailed == "failed"
OrderStatusCancelled == "cancelled"
OrderStatuses == {OrderStatusPending, OrderStatusPaid, OrderStatusFailed, OrderStatusCancelled}

PaymentStatusPending == "pending"
PaymentStatusSuccess == "success"
PaymentStatusFailed == "failed"
PaymentStatusCancelled == "cancelled"

OrderIds == FirstOrderId..(FirstOrderId + MaxOrders - 1)
Amounts == {0, 100}            \* quantity * price
DefaultSuccessRate == 80       \* the 0.8 of loadSuccessRate, in percent

\* PAYMENT_SUCCESS_RATE: unset (or empty), not a number, or a number (in percent)
RawRates ==
    {[set |-> FALSE, number |-> FALSE, value |-> 0],
     [set |-> TRUE, number |-> FALSE, value |-> 0]}
    \cup {[set |-> TRUE, number |-> TRUE, value |-> v] : v \in {-50, 0, 80, 100, 150}}

\* loadSuccessRate (part_008:261-281)
loadSuccessRate(raw) ==
    IF ~raw.set THEN DefaultSuccessRate
    ELSE IF ~raw.number THEN DefaultSuccessRate
    ELSE IF raw.value < 0 THEN 0
    ELSE IF raw.value > 100 THEN 100
    ELSE raw.value

\* paymentSuccessRate after loadSuccessRate, in percent
Rates == {loadSuccessRate(raw) : raw \in RawRates}
Draws == {0, 50, 99}           \* rng.Float64() in [0, 1), in percent
Nanos == 0..MaxNano            \* time.Now().UnixNano()
UserIds == {20 + u : u \in 1..MaxUsers}
NoTransaction == <<>>          \* the empty transaction id

EventTypes == {"order_created", "order_paid", "order_failed",
               "payment_success", "payment_failed", "order_shipped"}

\* models.OrderEvent as published by order-service
OrderEvent(type, id, userId, status, totalPrice) ==
    [eventType |-> type, orderId |-> id, userId |-> userId, status |-> status,
     amount |-> totalPrice,
     paymentId |-> 0, transactionId |-> NoTransaction]

\* models.PaymentEvent as published by payment-service
PaymentEvent(type, id, userId, status, amount, paymentId, transactionId) ==
    [eventType |-> type, orderId |-> id, userId |-> userId, status |-> status,
     amount |-> amount,
     paymentId |-> paymentId, transactionId |-> transactionId]

Max(a, b) == IF a >= b THEN a ELSE b

(***************************************************************************)
(* order-service saga consumer                                             *)
(***************************************************************************)
\* UPDATE orders SET status = $1, updated_at = CURRENT_TIMESTAMP WHERE id = $2
UpdateOrderStatus(db, id, status) ==
    [o \in DOMAIN db |-> IF o = id THEN [db[o] EXCEPT !.status = status] ELSE db[o]]

\* Variant of sagaHandleMessage: an event toggles the order between paid and failed
sagaHandleMessage_toggle(db, event, dbOk) ==
    CASE event.eventType \in {"order_failed", "payment_failed"} ->
            IF dbOk THEN [db |-> UpdateOrderStatus(db, event.orderId, OrderStatusFailed), err |-> FALSE]
                    ELSE [db |-> db, err |-> TRUE]
      [] event.eventType \in {"order_paid", "payment_success"} ->
            IF dbOk
            THEN [db |-> IF event.orderId \in DOMAIN db
                            /\ db[event.orderId].status = OrderStatusPaid
                         THEN UpdateOrderStatus(db, event.orderId, OrderStatusPending)
                         ELSE UpdateOrderStatus(db, event.orderId, OrderStatusPaid),
                  err |-> FALSE]
            ELSE [db |-> db, err |-> TRUE]
      [] OTHER -> [db |-> db, err |-> FALSE]

\* handleMessage of the traced saga consumer (part_002:56-116), after a successful
\* json.Unmarshal; dbOk is whether db.ExecContext succeeds
sagaHandleMessage(db, event, dbOk) ==
    CASE event.eventType \in {"order_failed", "payment_failed"} ->
            IF dbOk THEN [db |-> UpdateOrderStatus(db, event.orderId, OrderStatusFailed), err |-> FALSE]
                    ELSE [db |-> db, err |-> TRUE]
      [] event.eventType \in {"order_paid", "payment_success"} ->
            IF dbOk THEN [db |-> UpdateOrderStatus(db, event.orderId, OrderStatusPaid), err |-> FALSE]
                    ELSE [db |-> db, err |-> TRUE]
      [] OTHER -> [db |-> db, err |-> FALSE]

\* handleMessage of the saga consumer in order-service/kafka/producer.go:103-139
sagaHandleMessagePlain(db, event, dbOk) ==
    CASE event.eventType \in {"order_failed", "payment_failed"} ->
            IF dbOk THEN [db |-> UpdateOrderStatus(db, event.orderId, OrderStatusFailed), err |-> FALSE]
                    ELSE [db |-> db, err |-> TRUE]
      [] event.eventType \in {"order_paid"} ->
            IF dbOk THEN [db |-> UpdateOrderStatus(db, event.orderId, OrderStatusPaid), err |-> FALSE]
                    ELSE [db |-> db, err |-> TRUE]
      [] OTHER -> [db |-> db, err |-> FALSE]

(***************************************************************************)
(* payment-service consumer                                                *)
(***************************************************************************)
\* fmt.Sprintf("TXN-%d-%d", orderID, time.Now().UnixNano())
TransactionID(orderID, nano) == <<"TXN", orderID, nano>>

\* time.Now().Unix(): the clock of the model ticks twice per second
Unix(nano) == nano \div 2

\* Variant of simulatePayment: the amount is not validated
simulatePayment_novalidate(orderID, amount, draw, nano, rate) ==
    IF draw <= rate
    THEN [status |-> PaymentStatusSuccess, transactionID |-> TransactionID(orderID, nano)]
    ELSE [status |-> PaymentStatusFailed, transactionID |-> NoTransaction]

\* Variant of simulatePayment: the draw is compared the other way round
simulatePayment_flip(orderID, amount, draw, nano, rate) ==
    IF amount <= 0
    THEN [status |-> PaymentStatusFailed, transactionID |-> NoTransaction]
    ELSE IF draw >= rate
         THEN [status |-> PaymentStatusSuccess, transactionID |-> TransactionID(orderID, nano)]
         ELSE [status |-> PaymentStatusFailed, transactionID |-> NoTransaction]

\* Variant of simulatePayment: a declined payment keeps a transaction id
simulatePayment_keepid(orderID, amount, draw, nano, rate) ==
    IF amount <= 0
    THEN [status |-> PaymentStatusFailed, transactionID |-> NoTransaction]
    ELSE IF draw <= rate
         THEN [status |-> PaymentStatusSuccess, transactionID |-> TransactionID(orderID, nano)]
         ELSE [status |-> PaymentStatusFailed, transactionID |-> TransactionID(orderID, nano)]

\* simulatePayment (part_008:241-259); draw is rng.Float64(), nano the clock at line 254
simulatePayment(orderID, amount, draw, nano, rate) ==
    IF amount <= 0
    THEN [status |-> PaymentStatusFailed, transactionID |-> NoTransaction]
    ELSE IF draw <= rate
         THEN [status |-> PaymentStatusSuccess, transactionID |-> TransactionID(orderID, nano)]
         ELSE [status |-> PaymentStatusFailed, transactionID |-> NoTransaction]

\* the row INSERTed by persistPayment (part_008:227-239); the serial id is the position
PaymentRow(table, evt, status, transactionID) ==
    [id |-> Len(table) + 1, orderId |-> evt.orderId, userId |-> evt.userId,
     amount |-> evt.amount,
     status |-> status, transactionId |-> transactionID]

\* Variant of OutcomeEvent: the event carries the order id in place of the user id
OutcomeEvent_nouser(row) ==
    PaymentEvent(IF row.status = PaymentStatusSuccess THEN "payment_success" ELSE "payment_failed",
                 row.orderId, row.orderId, row.status, row.amount, row.id, row.transactionId)

\* the event built at part_008:170-194
OutcomeEvent(row) ==
    PaymentEvent(IF row.status = PaymentStatusSuccess THEN "payment_success" ELSE "payment_failed",
                 row.orderId, row.userId, row.status, row.amount, row.id, row.transactionId)

\* the event built by processPayment (order_test.go:279-298)
ProcessPaymentEvent(id, row) ==
    IF id % 5 = 0
    THEN OrderEvent("payment_failed", id, row.userId, OrderStatusFailed, row.totalPrice)
    ELSE OrderEvent("order_paid", id, row.userId, OrderStatusPaid, row.totalPrice)

\* producer.SendMessage: the event is appended, or the send fails and nothing is
Publish(log, event, pubOk) == IF pubOk THEN Append(log, event) ELSE log

NoRow == <<>>

\* Variant of paymentHandleMessage: the row of an order already decided is overwritten
paymentHandleMessage_upsert(table, log, msg, draw, nano, rate, dbOk, pubOk) ==
    IF msg.eventType # "order_created"
    THEN [payments |-> table, bus |-> log, err |-> FALSE, row |-> NoRow, sent |-> FALSE]
    ELSE LET sim == simulatePayment(msg.orderId, msg.amount, draw, nano, rate)
             old == {i \in 1..Len(table) : table[i].orderId = msg.orderId}
             row == PaymentRow(table, msg, sim.status, sim.transactionID)
         IN  IF ~dbOk
             THEN [payments |-> table, bus |-> log, err |-> TRUE, row |-> NoRow, sent |-> FALSE]
             ELSE [payments |-> IF old = {} THEN Append(table, row)
                                ELSE [i \in 1..Len(table) |->
                                        IF i \in old THEN [row EXCEPT !.id = i] ELSE table[i]],
                   bus |-> Publish(log, OutcomeEvent(row), pubOk),
                   err |-> FALSE, row |-> row, sent |-> pubOk]

\* Variant of paymentHandleMessage: the event is sent before the INSERT is known to
\* have succeeded
paymentHandleMessage_sendfirst(table, log, msg, draw, nano, rate, dbOk, pubOk) ==
    IF msg.eventType # "order_created"
    THEN [payments |-> table, bus |-> log, err |-> FALSE, row |-> NoRow, sent |-> FALSE]
    ELSE LET sim == simulatePayment(msg.orderId, msg.amount, draw, nano, rate)
             row == PaymentRow(table, msg, sim.status, sim.transactionID)
         IN  IF ~dbOk
             THEN [payments |-> table, bus |-> Publish(log, OutcomeEvent(row), pubOk),
                   err |-> TRUE, row |-> NoRow, sent |-> FALSE]
             ELSE [payments |-> Append(table, row),
                   bus |-> Publish(log, OutcomeEvent(row), pubOk),
                   err |-> FALSE, row |-> row, sent |-> pubOk]

\* handleMessage of the payment consumer (part_008:113-209) on a decoded message:
\* table is the payments table, log the order_events topic, dbOk whether the INSERT
\* of persistPayment succeeds, pubOk whether the send of PublishPaymentEvent succeeds
paymentHandleMessage(table, log, msg, draw, nano, rate, dbOk, pubOk) ==
    IF msg.eventType # "order_created"
    THEN \* lines 135-138: skipped, nil returned
         [payments |-> table, bus |-> log, err |-> FALSE, row |-> NoRow, sent |-> FALSE]
    ELSE LET sim == simulatePayment(msg.orderId, msg.amount, draw, nano, rate)
             row == PaymentRow(table, msg, sim.status, sim.transactionID)
         IN  IF ~dbOk
             THEN \* lines 162-166: persistPayment failed, the error is returned
                  [payments |-> table, bus |-> log, err |-> TRUE, row |-> NoRow, sent |-> FALSE]
             ELSE \* lines 170-208: a failed send is logged, nil returned
                  [payments |-> Append(table, row),
                   bus |-> Publish(log, OutcomeEvent(row), pubOk),
                   err |-> FALSE, row |-> row, sent |-> pubOk]

\* the decision of payment-service/kafka/consumer.go:117-134: rand.Float32() > 0.2,
\* the amount is not looked at, the transaction id carries time.Now().Unix()
simulatePaymentPlain(orderID, draw, nano) ==
    IF draw > 20
    THEN [status |-> PaymentStatusSuccess,
          transactionID |-> TransactionID(orderID, Unix(nano))]
    ELSE [status |-> PaymentStatusFailed, transactionID |-> NoTransaction]

\* handleMessage of payment-service/kafka/consumer.go:58-175 on a decoded message
paymentHandleMessagePlain(table, log, msg, draw, nano, dbOk, pubOk) ==
    IF msg.eventType # "order_created"
    THEN \* lines 80-85
         [payments |-> table, bus |-> log, err |-> FALSE, row |-> NoRow, sent |-> FALSE]
    ELSE LET sim == simulatePaymentPlain(msg.orderId, draw, nano)
             row == PaymentRow(table, msg, sim.status, sim.transactionID)
         IN  IF ~dbOk
             THEN \* lines 141-144
                  [payments |-> table, bus |-> log, err |-> TRUE, row |-> NoRow, sent |-> FALSE]
             ELSE \* lines 146-171
                  [payments |-> Append(table, row),
                   bus |-> Publish(log, OutcomeEvent(row), pubOk),
                   err |-> FALSE, row |-> row, sent |-> pubOk]

CBIdle ==
    /\ cb = NewCircuitBreaker(1, 0)
    /\ seqcb = NewCircuitBreaker(1, 0)
    /\ mu = NoOwner
    /\ now = 0
    /\ pc = [t \in Callers |-> "idle"]
    /\ call = [t \in Callers |-> NoCall]
    /\ failRun = 0
    /\ longRun = FALSE
    /\ rejected = FALSE

NoHist == [dups |-> {}, faults |-> FALSE,
           once |-> [o \in OrderIds |-> OrderStatusPending],
           done |-> [o \in OrderIds |-> 0],
           pub |-> [o \in OrderIds |-> 0],
           paid |-> [o \in OrderIds |-> FALSE],
           lost |-> [o \in OrderIds |-> FALSE],
           seen |-> [o \in OrderIds |-> "none"]]

PipelineIdle ==
    /\ payments = <<>>
    /\ bus = <<>>
    /\ procs = {}
    /\ payPos = 1
    /\ payMarked = 1
    /\ payCommitted = 1
    /\ restarts = 0
    /\ sagaPos = 1
    /\ paymentSuccessRate = 100
    /\ hist = NoHist

SagaIdle == orders = <<>> /\ PipelineIdle

NoFn == [copy |-> "traced", event |-> OrderEvent("order_created", 0, 0, OrderStatusPending, 0),
         n |-> 0, oks |-> 0, err |-> FALSE, db0 |-> <<>>, once |-> <<>>]

FnIdle == fn = NoFn

(***************************************************************************)
(* notification-service consumer                                           *)
(***************************************************************************)
BaseInterval == 1          \* time.Second, in seconds
CallSiteMaxRetries == 3    \* handleMessageWithRetry(message, logger, 3)

NoEventType == "<none>"

\* message.Value: json is whether json.Unmarshal accepts the bytes, eventType the
\* string under "event_type", NoEventType when the key is absent or not a string
Payloads ==
    {[json |-> TRUE, eventType |-> ty] :
        ty \in {"order_created", "payment_success", "payment_failed", "order_paid",
                NoEventType}}
    \cup {[json |-> FALSE, eventType |-> NoEventType]}

NotifiedTypes == {"order_created", "payment_success", "payment_failed"}

\* Variant of notifyHandleMessage: an event type without a handler is an error
notifyHandleMessage_strict(payload) ==
    IF ~payload.json
    THEN [err |-> TRUE, sent |-> <<>>]
    ELSE IF payload.eventType = NoEventType
         THEN [err |-> TRUE, sent |-> <<>>]
         ELSE IF payload.eventType \in NotifiedTypes
              THEN [err |-> FALSE, sent |-> <<payload.eventType>>]
              ELSE [err |-> TRUE, sent |-> <<>>]

\* Variant of notifyHandleMessage: the notification is recorded, then the type is
\* looked at again and a payment_failed event is reported as an error
notifyHandleMessage_senderr(payload) ==
    IF ~payload.json
    THEN [err |-> TRUE, sent |-> <<>>]
    ELSE IF payload.eventType = NoEventType
         THEN [err |-> TRUE, sent |-> <<>>]
         ELSE IF payload.eventType \in NotifiedTypes
              THEN [err |-> payload.eventType = "payment_failed", sent |-> <<payload.eventType>>]
              ELSE [err |-> FALSE, sent |-> <<>>]

\* handleMessage of the notification consumer (part_009:79-119): err is whether an
\* error is returned, sent the notifications recorded by the branch taken
notifyHandleMessage(payload) ==
    IF ~payload.json
    THEN [err |-> TRUE, sent |-> <<>>]                 \* lines 93-96
    ELSE IF payload.eventType = NoEventType
         THEN [err |-> TRUE, sent |-> <<>>]            \* lines 98-102
         ELSE IF payload.eventType \in NotifiedTypes
              THEN [err |-> FALSE, sent |-> <<payload.eventType>>]   \* lines 107-113
              ELSE [err |-> FALSE, sent |-> <<>>]      \* lines 114-115

\* Variant of MoreAttempts: one more turn of the loop
MoreAttempts_extra(attempt, maxRetries) == attempt <= maxRetries + 1

\* the loop condition of handleMessageWithRetry (line 60)
MoreAttempts(attempt, maxRetries) == attempt <= maxRetries

\* the condition of the sleep (line 66)
BackoffBefore(attempt, maxRetries) == attempt < maxRetries

\* Variant of Backoff: the same wait before every retry
Backoff_const(attempt) == BaseInterval

\* time.Duration(attempt) * time.Second (line 67), in seconds
Backoff(attempt) == attempt * BaseInterval

\* Variant of StartOffset: the consumer starts at the oldest offset
StartOffset_oldest(avail) == 1

\* sarama.OffsetNewest in ConsumePartition (line 38): the consumer starts after the
\* avail messages the partition holds
StartOffset(avail) == avail + 1

\* msgs are the messages the producers will append to the partition and avail the
\* number of them appended so far; pc is "exited" while the process is not running;
\* sent are the notifications recorded so far, notified those of the message being
\* handled; taken, aborted and log record what the consumer did
NoNote == [msgs |-> <<>>, avail |-> 0, maxRetries |-> CallSiteMaxRetries, pos |-> 1,
           pc |-> "exited", runs |-> 0, attempt |-> 1, tries |-> 0, waits |-> <<>>,
           sent |-> <<>>, notified |-> <<>>, taken |-> <<>>, aborted |-> {}, log |-> <<>>]

NoteIdle == note = NoNote

(***************************************************************************)
(* payment-service process                                                 *)
(***************************************************************************)
\* main is where main is: "serving" until the signal, "waiting" in consumerWG.Wait(),
\* "returned" once the deferred Close calls ran. loop is where the consumer goroutine
\* is: "range" at claim.Messages(), "handling" inside handleMessage, "finished" once
\* StartConsumer returned. fed is the number of messages put into the channel of the
\* claim, closed whether that channel has been closed. inflight, after and completed
\* record the offset being handled at the signal, the offsets taken after it and the
\* offsets whose handling returned.
NoSvc == [main |-> "serving", loop |-> "range", cancelled |-> FALSE, fed |-> 0,
          closed |-> FALSE, inflight |-> 0, after |-> {}, completed |-> {}]

SvcIdle == svc = NoSvc

InitCB ==
    /\ \E mf \in 1..MaxFailuresBound, rt \in 0..MaxResetTimeout :
          /\ cb = NewCircuitBreaker(mf, rt)
          /\ seqcb = NewCircuitBreaker(mf, rt)
    /\ mu = NoOwner
    /\ now = 0
    /\ pc = [t \in Callers |-> "idle"]
    /\ call = [t \in Callers |-> NoCall]
    /\ failRun = 0
    /\ longRun = FALSE
    /\ rejected = FALSE
    /\ SagaIdle
    /\ FnIdle
    /\ NoteIdle
    /\ SvcIdle

\* a goroutine calls Execute and reaches cb.mu.Lock() (line 40)
ExecuteCall(t) ==
    /\ pc[t] = "idle"
    /\ pc' = [pc EXCEPT ![t] = "lock"]
    /\ UNCHANGED <<cb, mu, now, call, failRun, longRun, rejected, seqcb, sagavars, fn, note, svc>>

\* cb.mu.Lock() returns (line 40)
Lock(t) ==
    /\ pc[t] = "lock"
    /\ MutexFree(mu)
    /\ mu' = t
    /\ pc' = [pc EXCEPT ![t] = "check"]
    /\ UNCHANGED <<cb, now, call, failRun, longRun, rejected, seqcb, sagavars, fn, note, svc>>

\* lines 44-54: the Open check, then either return ErrCircuitOpen or start fn
OpenCheck(t) ==
    /\ pc[t] = "check"
    /\ LET chk == ExecuteCheck(cb, now)
       IN  /\ cb' = chk.cb
           /\ IF chk.open
              THEN /\ pc' = [pc EXCEPT ![t] = "ret"]
                   /\ call' = [call EXCEPT ![t] = [NoCall EXCEPT !.pre = cb, !.preNow = now,
                                                   !.ret = ErrCircuitOpen, !.retNow = now]]
                   /\ rejected' = TRUE
              ELSE /\ pc' = [pc EXCEPT ![t] = "fn"]
                   /\ call' = [call EXCEPT ![t] = [NoCall EXCEPT !.pre = cb, !.preNow = now,
                                                   !.invoked = 1]]
                   /\ UNCHANGED rejected
    /\ UNCHANGED <<mu, now, failRun, longRun, seqcb, sagavars, fn, note, svc>>

\* lines 54-78: fn returns (ok or error) and the breaker records the result
FnReturn(t) ==
    /\ pc[t] = "fn"
    /\ \E ok \in BOOLEAN :
          /\ cb' = ExecuteRecord(cb, ok, now)
          /\ call' = [call EXCEPT ![t].fnOk = ok,
                                  ![t].ret = IF ok THEN NoError ELSE ErrOperation,
                                  ![t].retNow = now]
          /\ failRun' = IF ok THEN 0
                        ELSE IF failRun < cb.maxFailures THEN failRun + 1 ELSE failRun
          /\ longRun' = (longRun \/ (~ok /\ failRun + 1 >= cb.maxFailures))
    /\ pc' = [pc EXCEPT ![t] = "ret"]
    /\ UNCHANGED <<mu, now, rejected, seqcb, sagavars, fn, note, svc>>

\* the deferred cb.mu.Unlock() (line 41); Execute has returned call[t].ret
Unlock(t) ==
    /\ pc[t] = "ret"
    /\ mu' = NoOwner
    /\ pc' = [pc EXCEPT ![t] = "idle"]
    /\ seqcb' = ExecuteSeq(seqcb, call[t].preNow, call[t].fnOk, call[t].retNow)
    /\ call' = [call EXCEPT ![t] = NoCall]
    /\ UNCHANGED <<cb, now, failRun, longRun, rejected, sagavars, fn, note, svc>>

\* time passes
Tick ==
    /\ now < MaxTime
    /\ now' = now + 1
    /\ UNCHANGED <<cb, mu, pc, call, failRun, longRun, rejected, seqcb, sagavars, fn, note, svc>>

NextCB ==
    \/ \E t \in Callers : ExecuteCall(t)
    \/ \E t \in Callers : Lock(t)
    \/ \E t \in Callers : OpenCheck(t)
    \/ \E t \in Callers : FnReturn(t)
    \/ \E t \in Callers : Unlock(t)
    \/ Tick

SpecCB == InitCB /\ [][NextCB]_vars

\* Variant of GetState: the state is read without the read lock
GetState_norlock(t) ==
    /\ pc[t] = "idle"
    /\ call' = [call EXCEPT ![t].got = {cb.state}]
    /\ UNCHANGED <<cb, mu, now, pc, failRun, longRun, rejected, seqcb, sagavars, fn, note, svc>>

\* GetState (lines 80-84): RLock returns only while no Execute holds the mutex; got
\* is the state returned
GetState(t) ==
    /\ pc[t] = "idle"
    /\ MutexFree(mu)
    /\ call' = [call EXCEPT ![t].got = {cb.state}]
    /\ UNCHANGED <<cb, mu, now, pc, failRun, longRun, rejected, seqcb, sagavars, fn, note, svc>>

NextCBGet ==
    \/ NextCB
    \/ \E t \in Callers : GetState(t)

SpecCBGet == InitCB /\ [][NextCBGet]_vars

\* callers keep calling, every started call runs to its return, and the clock advances
FairSpecCB ==
    /\ SpecCB
    /\ WF_vars(Tick)
    /\ \A t \in Callers :
          /\ WF_vars(ExecuteCall(t))
          /\ WF_vars(Lock(t))
          /\ WF_vars(OpenCheck(t))
          /\ WF_vars(FnReturn(t))
          /\ WF_vars(Unlock(t))

(***************************************************************************)
(* The saga handler applied on its own to an arbitrary orders table        *)
(***************************************************************************)
AbsentOrderId == FirstOrderId + MaxOrders

InitSagaFn ==
    /\ CBIdle
    /\ NoteIdle
    /\ SvcIdle
    /\ PipelineIdle
    /\ orders \in [OrderIds -> [status : OrderStatuses, totalPrice : {100}, userId : UserIds]]
    /\ \E c \in {"traced", "plain"}, ty \in EventTypes, id \in OrderIds \cup {AbsentOrderId},
          u \in UserIds :
          fn = [NoFn EXCEPT !.copy = c,
                            !.event = OrderEvent(ty, id, u, OrderStatusPending, 100),
                            !.db0 = orders, !.once = orders]

FnApplied(r) ==
    /\ orders' = r.db
    /\ fn' = [fn EXCEPT !.n = fn.n + 1,
                        !.oks = IF r.err THEN fn.oks ELSE fn.oks + 1,
                        !.err = r.err,
                        !.once = IF ~r.err /\ fn.oks = 0 THEN r.db ELSE fn.once]
    /\ UNCHANGED <<cbvars, note, svc, payments, bus, procs, payPos, payMarked, payCommitted,
                   restarts, sagaPos, paymentSuccessRate, hist>>

\* one delivery of fn.event to handleMessage of the traced saga consumer
SagaApply ==
    /\ fn.copy = "traced"
    /\ fn.n < MaxApply
    /\ \E dbOk \in BOOLEAN : FnApplied(sagaHandleMessage(orders, fn.event, dbOk))

\* one delivery of fn.event to handleMessage of order-service/kafka/producer.go
SagaApplyPlain ==
    /\ fn.copy = "plain"
    /\ fn.n < MaxApply
    /\ \E dbOk \in BOOLEAN : FnApplied(sagaHandleMessagePlain(orders, fn.event, dbOk))

NextSagaFn == SagaApply \/ SagaApplyPlain

SpecSagaFn == InitSagaFn /\ [][NextSagaFn]_vars

(***************************************************************************)
(* The payment handler applied on its own to deliveries of order events    *)
(***************************************************************************)
\* the amounts a delivered order_created event can carry
EventAmounts == Amounts \cup {-100}

PayMessages ==
    {OrderEvent(ty, id, u, OrderStatusPending, a) :
        ty \in {"order_created", "order_paid"}, id \in OrderIds, u \in UserIds,
        a \in EventAmounts}

NoPayFn == [copy |-> "traced", event |-> OrderEvent("order_paid", 0, 0, OrderStatusPending, 0),
            n |-> 0, err |-> FALSE, row |-> NoRow, sent |-> FALSE,
            payments0 |-> <<>>, bus0 |-> <<>>,
            done |-> [o \in OrderIds |-> 0]]

InitPayFn ==
    /\ CBIdle
    /\ NoteIdle
    /\ SvcIdle
    /\ orders = <<>>
    /\ payments = <<>>
    /\ bus = <<>>
    /\ procs = {}
    /\ payPos = 1
    /\ payMarked = 1
    /\ payCommitted = 1
    /\ restarts = 0
    /\ sagaPos = 1
    /\ paymentSuccessRate \in Rates
    /\ hist = NoHist
    /\ \E c \in {"traced", "plain"} : fn = [NoPayFn EXCEPT !.copy = c]

PayFnApplied(msg, r) ==
    /\ payments' = r.payments
    /\ bus' = r.bus
    /\ fn' = [fn EXCEPT !.event = msg, !.n = fn.n + 1, !.err = r.err, !.row = r.row,
                        !.sent = r.sent, !.payments0 = payments, !.bus0 = bus,
                        !.done = IF r.row = NoRow THEN @
                                 ELSE [@ EXCEPT ![msg.orderId] = @ + 1]]
    /\ UNCHANGED <<cbvars, note, svc, orders, procs, payPos, payMarked, payCommitted,
                   restarts, sagaPos, paymentSuccessRate, hist>>

\* one delivery of a message to handleMessage of the traced payment consumer
PayApply ==
    /\ fn.copy = "traced"
    /\ fn.n < MaxApply
    /\ \E msg \in PayMessages, draw \in Draws, nano \in Nanos,
          dbOk \in BOOLEAN, pubOk \in BOOLEAN :
          PayFnApplied(msg, paymentHandleMessage(payments, bus, msg, draw, nano,
                                                 paymentSuccessRate, dbOk, pubOk))

\* one delivery of a message to handleMessage of payment-service/kafka/consumer.go
PayApplyPlain ==
    /\ fn.copy = "plain"
    /\ fn.n < MaxApply
    /\ \E msg \in PayMessages, draw \in Draws, nano \in Nanos,
          dbOk \in BOOLEAN, pubOk \in BOOLEAN :
          PayFnApplied(msg, paymentHandleMessagePlain(payments, bus, msg, draw, nano,
                                                      dbOk, pubOk))

NextPayFn == PayApply \/ PayApplyPlain

SpecPayFn == InitPayFn /\ [][NextPayFn]_vars

(***************************************************************************)
(* The notification consumer on a partition of arbitrary payloads          *)
(***************************************************************************)
PayloadSeqs == UNION {[1..n -> Payloads] : n \in 1..MaxNotifyMsgs}

InitNotify ==
    /\ CBIdle
    /\ SagaIdle
    /\ FnIdle
    /\ SvcIdle
    /\ \E ms \in PayloadSeqs, mr \in 1..MaxRetriesBound :
          note = [NoNote EXCEPT !.msgs = ms, !.maxRetries = mr]

\* handleMessageWithRetry returns to StartConsumer (lines 48-51): the error, if any,
\* is logged and the loop takes the next message
NotifyReturn(nt, err) ==
    [nt EXCEPT !.pc = "recv", !.pos = nt.pos + 1,
               !.log = Append(nt.log, [pos |-> nt.pos,
                                       payload |-> nt.msgs[nt.pos], attempts |-> nt.tries,
                                       waits |-> nt.waits, sent |-> nt.notified,
                                       err |-> err])]

\* the end of one turn of the loop of handleMessageWithRetry: attempt++ and the test
\* of line 60, then either the next turn or the return of line 76
NotifyNextTurn(nt) ==
    IF MoreAttempts(nt.attempt + 1, nt.maxRetries)
    THEN [nt EXCEPT !.attempt = nt.attempt + 1, !.pc = "attempt"]
    ELSE NotifyReturn([nt EXCEPT !.attempt = nt.attempt + 1], TRUE)

\* StartConsumer takes the next message of the partition and calls
\* handleMessageWithRetry (lines 48-49, 58-60)
NotifyReceive ==
    /\ note.pc = "recv"
    /\ note.pos <= note.avail
    /\ note' = LET nt == [note EXCEPT !.attempt = 1, !.tries = 0, !.waits = <<>>,
                                      !.notified = <<>>,
                                      !.taken = Append(note.taken, note.pos)]
               IN  IF MoreAttempts(1, nt.maxRetries)
                   THEN [nt EXCEPT !.pc = "attempt"]
                   ELSE NotifyReturn(nt, TRUE)
    /\ UNCHANGED <<cbvars, sagavars, fn, svc>>

\* one call of handleMessage (lines 61-66) and what the loop does with its result
NotifyAttemptOf(n0) ==
    LET r == notifyHandleMessage(n0.msgs[n0.pos])
        nt == [n0 EXCEPT !.tries = n0.tries + 1, !.sent = n0.sent \o r.sent,
                         !.notified = n0.notified \o r.sent]
    IN  IF ~r.err THEN NotifyReturn(nt, FALSE)
        ELSE IF BackoffBefore(nt.attempt, nt.maxRetries)
             THEN [nt EXCEPT !.pc = "backoff"]
             ELSE NotifyNextTurn(nt)

NotifyAttempt ==
    /\ note.pc = "attempt"
    /\ note' = NotifyAttemptOf(note)
    /\ UNCHANGED <<cbvars, sagavars, fn, svc>>

\* time.Sleep(backoff) returns (lines 67-73)
NotifySleep ==
    /\ note.pc = "backoff"
    /\ note' = NotifyNextTurn([note EXCEPT !.waits = Append(note.waits, Backoff(note.attempt))])
    /\ UNCHANGED <<cbvars, sagavars, fn, svc>>

\* a producer appends the next message to the partition
NotifyPublish ==
    /\ note.avail < Len(note.msgs)
    /\ note' = [note EXCEPT !.avail = note.avail + 1]
    /\ UNCHANGED <<cbvars, sagavars, fn, svc>>

\* main starts the consumer goroutine (part_009:272-277), which opens the partition
\* at OffsetNewest (line 38)
NotifyStart ==
    /\ note.pc = "exited"
    /\ note.runs < MaxNotifyRuns
    /\ note' = [note EXCEPT !.pc = "recv", !.runs = note.runs + 1,
                            !.pos = StartOffset(note.avail)]
    /\ UNCHANGED <<cbvars, sagavars, fn, svc>>

\* gracefulShutdown (part_009:312-342): on the signal it shuts the HTTP server down,
\* closes the consumer and returns, and main returns with it; the consumer goroutine
\* is not waited for, so that a message it is handling is abandoned where it is
NotifyShutdown ==
    /\ note.pc # "exited"
    /\ note' = [note EXCEPT !.pc = "exited",
                            !.aborted = IF note.pc \in {"attempt", "backoff"}
                                        THEN @ \cup {note.pos} ELSE @]
    /\ UNCHANGED <<cbvars, sagavars, fn, svc>>

NextNotify ==
    \/ NotifyPublish
    \/ NotifyStart
    \/ NotifyReceive
    \/ NotifyAttempt
    \/ NotifySleep
    \/ NotifyShutdown

SpecNotify == InitNotify /\ [][NextNotify]_vars

\* the notification service whose goroutines keep running
FairSpecNotify ==
    /\ InitNotify
    /\ [][NextNotify]_vars
    /\ WF_vars(NotifyPublish)
    /\ WF_vars(NotifyStart)
    /\ WF_vars(NotifyReceive)
    /\ WF_vars(NotifyAttempt)
    /\ WF_vars(NotifySleep)

(***************************************************************************)
(* The pipeline: order intake, payment consumer, saga consumer             *)
(***************************************************************************)
InitSaga ==
    /\ CBIdle
    /\ NoteIdle
    /\ SvcIdle
    /\ FnIdle
    /\ orders = <<>>
    /\ payments = <<>>
    /\ bus = <<>>
    /\ procs = {}
    /\ payPos = 1
    /\ payMarked = 1
    /\ payCommitted = 1
    /\ restarts = 0
    /\ sagaPos = 1
    /\ paymentSuccessRate \in Rates
    /\ hist = NoHist

NextOrderId == FirstOrderId + Cardinality(DOMAIN orders)

\* the INSERT ... RETURNING of CreateOrder: a new pending row with the next serial id
InsertOrder(db, id, userId, totalPrice) ==
    [o \in DOMAIN db \cup {id} |->
        IF o = id THEN [status |-> OrderStatusPending, totalPrice |-> totalPrice,
                        userId |-> userId]
                  ELSE db[o]]

\* OrderHandler.CreateOrder (order_test.go:183-272) once both product calls succeeded
\* and the INSERT succeeded: row inserted, order_created published (a failed send is
\* only logged), processPayment started as a goroutine
CreateOrderREST ==
    /\ Cardinality(DOMAIN orders) < MaxOrders
    /\ Len(bus) < MaxBus
    /\ \E userId \in UserIds, totalPrice \in {a \in Amounts : a >= 0}, pubOk \in BOOLEAN :
          /\ orders' = InsertOrder(orders, NextOrderId, userId, totalPrice)
          /\ bus' = Publish(bus, OrderEvent("order_created", NextOrderId, userId,
                                            OrderStatusPending, totalPrice), pubOk)
          /\ procs' = procs \cup {NextOrderId}
    /\ UNCHANGED <<cbvars, note, svc, fn, payments, payPos, payMarked, payCommitted, restarts,
                   sagaPos, paymentSuccessRate, hist>>

\* OrderService.CreateOrder over gRPC (part_000:140-220): the same without processPayment
CreateOrderGRPC ==
    /\ Cardinality(DOMAIN orders) < MaxOrders
    /\ Len(bus) < MaxBus
    /\ \E userId \in UserIds, totalPrice \in Amounts, pubOk \in BOOLEAN :
          /\ orders' = InsertOrder(orders, NextOrderId, userId, totalPrice)
          /\ bus' = Publish(bus, OrderEvent("order_created", NextOrderId, userId,
                                            OrderStatusPending, totalPrice), pubOk)
    /\ UNCHANGED <<cbvars, note, svc, fn, payments, procs, payPos, payMarked, payCommitted, restarts,
                   sagaPos, paymentSuccessRate, hist>>

\* the processPayment goroutine of order id (order_test.go:274-303)
ProcessPayment(id) ==
    /\ id \in procs
    /\ Len(bus) < MaxBus
    /\ \E pubOk \in BOOLEAN :
          bus' = Publish(bus, ProcessPaymentEvent(id, orders[id]), pubOk)
    /\ procs' = procs \ {id}
    /\ UNCHANGED <<cbvars, note, svc, fn, orders, payments, payPos, payMarked, payCommitted, restarts,
                   sagaPos, paymentSuccessRate, hist>>

\* what a handling of msg can read: a skipped message (lines 135-138) reaches neither
\* the random source, the clock, the database nor the producer
PayDraws(msg) == IF msg.eventType = "order_created" THEN Draws ELSE {0}
PayNanos(msg) == IF msg.eventType = "order_created" THEN Nanos ELSE {0}
PayOks(msg) == IF msg.eventType = "order_created" THEN BOOLEAN ELSE {TRUE}

\* ConsumeClaim (part_008:101-111) takes the next message of the claim and runs
\* handleMessage (part_008:113-209) on it
PaymentConsume ==
    /\ payPos <= Len(bus)
    /\ bus[payPos].eventType = "order_created" => Len(bus) < MaxBus
    /\ \E draw \in PayDraws(bus[payPos]), nano \in PayNanos(bus[payPos]),
          dbOk \in PayOks(bus[payPos]), pubOk \in PayOks(bus[payPos]) :
          LET msg == bus[payPos]
              r == paymentHandleMessage(payments, bus, msg, draw, nano,
                                        paymentSuccessRate, dbOk, pubOk)
          IN  /\ payments' = r.payments
              /\ bus' = r.bus
              \* lines 103-107: the message is marked only when the handler returned nil
              /\ payMarked' = IF r.err THEN payMarked ELSE Max(payMarked, payPos + 1)
              /\ hist' = IF r.err THEN [hist EXCEPT !.faults = TRUE]
                         ELSE IF r.row = NoRow THEN hist
                         ELSE [hist EXCEPT
                                  !.done[msg.orderId] = @ + 1,
                                  !.pub[msg.orderId] = IF r.sent THEN @ + 1 ELSE @,
                                  !.faults = @ \/ ~r.sent,
                                  !.dups = IF r.sent /\ hist.done[msg.orderId] >= 1
                                           THEN @ \cup {Len(bus) + 1} ELSE @]
    /\ payPos' = payPos + 1
    /\ UNCHANGED <<cbvars, note, svc, fn, orders, procs, payCommitted, restarts, sagaPos,
                   paymentSuccessRate>>

\* the consumer group commits the marked offset (auto-commit, or on session end)
PaymentCommit ==
    /\ payCommitted < payMarked
    /\ payCommitted' = payMarked
    /\ UNCHANGED <<cbvars, note, svc, fn, orders, payments, bus, procs, payPos, payMarked, restarts,
                   sagaPos, paymentSuccessRate, hist>>

\* the payment consumer crashes or the group rebalances: the next session starts
\* at the committed offset
PaymentRestart ==
    /\ restarts < MaxRestarts
    /\ restarts' = restarts + 1
    /\ payPos' = payCommitted
    /\ payMarked' = payCommitted
    /\ UNCHANGED <<cbvars, note, svc, fn, orders, payments, bus, procs, payCommitted,
                   sagaPos, paymentSuccessRate, hist>>

\* StartConsumer of the saga consumer (part_002:44-53) takes the next message and
\* runs handleMessage; an error is logged and the loop goes on
SagaConsume ==
    /\ sagaPos <= Len(bus)
    /\ \E dbOk \in BOOLEAN :
          LET msg == bus[sagaPos]
              r == sagaHandleMessage(orders, msg, dbOk)
              shadow == [o \in DOMAIN orders |->
                            [orders[o] EXCEPT !.status = hist.once[o]]]
              rs == sagaHandleMessage(shadow, msg, dbOk)
          IN  /\ orders' = r.db
              /\ hist' = [hist EXCEPT
                    !.once = IF sagaPos \in hist.dups THEN @
                             ELSE [o \in OrderIds |->
                                     IF o \in DOMAIN rs.db THEN rs.db[o].status ELSE @[o]],
                    !.faults = @ \/ r.err,
                    !.paid = [o \in OrderIds |->
                                @[o] \/ (o \in DOMAIN r.db /\ r.db[o].status = OrderStatusPaid)],
                    !.lost = IF r.err /\ msg.eventType = "payment_success"
                                /\ msg.orderId \in OrderIds
                             THEN [@ EXCEPT ![msg.orderId] = TRUE] ELSE @]
    /\ sagaPos' = sagaPos + 1
    /\ UNCHANGED <<cbvars, note, svc, fn, payments, bus, procs, payPos, payMarked, payCommitted,
                   restarts, paymentSuccessRate>>

NextSaga ==
    \/ CreateOrderREST
    \/ CreateOrderGRPC
    \/ \E id \in OrderIds : ProcessPayment(id)
    \/ PaymentConsume
    \/ PaymentCommit
    \/ PaymentRestart
    \/ SagaConsume

SpecSaga == InitSaga /\ [][NextSaga]_vars

\* the pipeline of a payment-service configured with PAYMENT_SUCCESS_RATE=1.0, whose
\* consumer loops keep running
InitSagaRate100 == InitSaga /\ paymentSuccessRate = 100

FairSpecSagaRate100 ==
    /\ InitSagaRate100
    /\ [][NextSaga]_vars
    /\ WF_vars(PaymentConsume)
    /\ WF_vars(SagaConsume)

(***************************************************************************)
(* payment-service from start to shutdown                                  *)
(***************************************************************************)
\* the order_created events of the first n orders
CreatedEvents(n, amount) ==
    [i \in 1..n |-> OrderEvent("order_created", FirstOrderId + i - 1, 20 + MaxUsers,
                               OrderStatusPending, amount)]

InitPayStop ==
    /\ CBIdle
    /\ NoteIdle
    /\ FnIdle
    /\ SvcIdle
    /\ orders = <<>>
    /\ payments = <<>>
    /\ \E n \in 1..MaxOrders, amount \in Amounts : bus = CreatedEvents(n, amount)
    /\ procs = {}
    /\ payPos = 1
    /\ payMarked = 1
    /\ payCommitted = 1
    /\ restarts = 0
    /\ sagaPos = 1
    /\ paymentSuccessRate \in Rates
    /\ hist = NoHist

\* the partition consumer behind the claim puts the next message of the partition
\* into the buffered channel that claim.Messages() returns
PayStopFeed ==
    /\ ~svc.closed
    /\ svc.fed < Len(bus)
    /\ svc' = [svc EXCEPT !.fed = svc.fed + 1]
    /\ UNCHANGED <<cbvars, sagavars, fn, note>>

\* the range loop of ConsumeClaim (part_008:102) receives the next message of the
\* channel; the loop has no case for the session's context
PayStopPull ==
    /\ svc.loop = "range"
    /\ payPos <= svc.fed
    /\ svc' = [svc EXCEPT !.loop = "handling",
                          !.after = IF svc.cancelled THEN @ \cup {payPos} ELSE @]
    /\ UNCHANGED <<cbvars, sagavars, fn, note>>

\* handleMessage runs to its return (part_008:103-107, 113-209); its context comes
\* from context.Background() (line 117), not from the consumer's context
PayStopHandle ==
    /\ svc.loop = "handling"
    /\ \E draw \in PayDraws(bus[payPos]), nano \in PayNanos(bus[payPos]),
          dbOk \in PayOks(bus[payPos]), pubOk \in PayOks(bus[payPos]) :
          LET r == paymentHandleMessage(payments, bus, bus[payPos], draw, nano,
                                        paymentSuccessRate, dbOk, pubOk)
          IN  /\ payments' = r.payments
              /\ bus' = r.bus
              /\ payMarked' = IF r.err THEN payMarked ELSE Max(payMarked, payPos + 1)
    /\ payPos' = payPos + 1
    /\ svc' = [svc EXCEPT !.loop = "range", !.completed = @ \cup {payPos}]
    /\ UNCHANGED <<cbvars, note, fn, orders, procs, payCommitted, restarts, sagaPos,
                   paymentSuccessRate, hist>>

\* the signal arrives: main calls consumerCancel() and srv.Shutdown and then blocks
\* in consumerWG.Wait() (main.go:101-115); the session ends and the channel of the
\* claim is closed, the messages it already holds staying in it
PayStopSignal ==
    /\ svc.main = "serving"
    /\ svc' = [svc EXCEPT !.main = "waiting", !.cancelled = TRUE, !.closed = TRUE,
                          !.inflight = IF svc.loop = "handling" THEN payPos ELSE 0]
    /\ UNCHANGED <<cbvars, sagavars, fn, note>>

\* the range loop ends on the closed and empty channel: ConsumeClaim, Consume and
\* StartConsumer return (part_008:110, 81-88) and the goroutine calls Done
PayStopLoopEnd ==
    /\ svc.loop = "range"
    /\ svc.closed
    /\ payPos > svc.fed
    /\ svc' = [svc EXCEPT !.loop = "finished"]
    /\ UNCHANGED <<cbvars, sagavars, fn, note>>

\* consumerWG.Wait() returns and main returns, running the deferred Close calls of
\* the consumer group, the producer and the database (main.go:37, 44, 51, 115-117)
PayStopReturn ==
    /\ svc.main = "waiting"
    /\ svc.loop = "finished"
    /\ svc' = [svc EXCEPT !.main = "returned"]
    /\ UNCHANGED <<cbvars, sagavars, fn, note>>

NextPayStop ==
    \/ PayStopFeed
    \/ PayStopPull
    \/ PayStopHandle
    \/ PayStopSignal
    \/ PayStopLoopEnd
    \/ PayStopReturn

SpecPayStop == InitPayStop /\ [][NextPayStop]_vars

(***************************************************************************)
(* An order event from PublishOrderEvent to the saga consumer              *)
(***************************************************************************)
RECURSIVE Digits(_)
\* the decimal digits of a natural number, as strconv writes them
Digits(n) == IF n < 10 THEN <<n>> ELSE Append(Digits(n \div 10), n % 10)

RECURSIVE DigitsValue(_)
DigitsValue(ds) ==
    IF ds = <<>> THEN 0 ELSE 10 * DigitsValue(SubSeq(ds, 1, Len(ds) - 1)) + ds[Len(ds)]

\* JSON tokens: a number is a sign and its digits, a string its text
JsonNumber(n) == [kind |-> "number", neg |-> n < 0, digits |-> Digits(IF n < 0 THEN -n ELSE n)]
JsonString(str) == [kind |-> "string", text |-> str]

\* json.Unmarshal of a token into an int or float64 field, and into a string field
NumberOf(tok) == IF tok.neg THEN -DigitsValue(tok.digits) ELSE DigitsValue(tok.digits)
StringOf(tok) == tok.text

\* models.OrderEvent (part_002:172-180)
FullOrderEvent(orderId, userId, productId, quantity, status, totalPrice, eventType) ==
    [orderId |-> orderId, userId |-> userId, productId |-> productId,
     quantity |-> quantity, status |-> status, totalPrice |-> totalPrice,
     eventType |-> eventType]

WireEvents ==
    {FullOrderEvent(o, u, p, q, st, tp, ty) :
        o \in {0, 4, 15}, u \in UserIds, p \in {0, 7}, q \in {1, 12},
        st \in OrderStatuses, tp \in EventAmounts,
        ty \in {"order_created", "order_paid", "payment_failed"}}

\* json.Marshal(event): the object's members in the order of the struct's fields,
\* under the names of the json tags
Marshal(event) ==
    << <<"order_id", JsonNumber(event.orderId)>>,
       <<"user_id", JsonNumber(event.userId)>>,
       <<"product_id", JsonNumber(event.productId)>>,
       <<"quantity", JsonNumber(event.quantity)>>,
       <<"status", JsonString(event.status)>>,
       <<"total_price", JsonNumber(event.totalPrice)>>,
       <<"event_type", JsonString(event.eventType)>> >>

\* the member of a JSON object under a key, a zero of the wanted kind when absent
Member(value, key, zero) ==
    LET at == {i \in 1..Len(value) : value[i][1] = key}
    IN  IF at = {} THEN zero ELSE value[CHOOSE i \in at : \A j \in at : j <= i][2]

\* Variant of Unmarshal: the price is read under the key of the payment events
Unmarshal_amount(value) ==
    FullOrderEvent(NumberOf(Member(value, "order_id", JsonNumber(0))),
                   NumberOf(Member(value, "user_id", JsonNumber(0))),
                   NumberOf(Member(value, "product_id", JsonNumber(0))),
                   NumberOf(Member(value, "quantity", JsonNumber(0))),
                   StringOf(Member(value, "status", JsonString(""))),
                   NumberOf(Member(value, "amount", JsonNumber(0))),
                   StringOf(Member(value, "event_type", JsonString(""))))

\* json.Unmarshal(message.Value, &event) with event a models.OrderEvent
\* (part_002:72-76): each field from the member under its json tag
Unmarshal(value) ==
    FullOrderEvent(NumberOf(Member(value, "order_id", JsonNumber(0))),
                   NumberOf(Member(value, "user_id", JsonNumber(0))),
                   NumberOf(Member(value, "product_id", JsonNumber(0))),
                   NumberOf(Member(value, "quantity", JsonNumber(0))),
                   StringOf(Member(value, "status", JsonString(""))),
                   NumberOf(Member(value, "total_price", JsonNumber(0))),
                   StringOf(Member(value, "event_type", JsonString(""))))

\* the header keys and values the propagator may set
HeaderKeys == {"traceparent", "tracestate"}
HeaderValues == {"t1", "t2"}
SetCalls == UNION {[1..n -> HeaderKeys \X HeaderValues] : n \in 0..MaxSets}

\* saramaHeaderCarrier.Set (part_001:233-238): a header is appended
CarrierSet(carrier, key, value) == Append(carrier, <<key, value>>)

\* saramaHeaderCarrierConsumer.Get (part_002:121-128): the first header of that key
CarrierGet(headers, key) ==
    LET at == {i \in 1..Len(headers) : headers[i][1] = key}
    IN  IF at = {} THEN "" ELSE headers[CHOOSE i \in at : \A j \in at : i <= j][2]

\* saramaHeaderCarrierConsumer.Keys (part_002:134-140)
CarrierKeys(headers) == [i \in 1..Len(headers) |-> headers[i][1]]

NoWire == [copy |-> "traced", event |-> FullOrderEvent(0, 0, 0, 0, "", 0, ""),
           sets |-> <<>>, carrier |-> <<>>, stage |-> "new",
           value |-> <<>>, headers |-> <<>>, decoded |-> FullOrderEvent(0, 0, 0, 0, "", 0, ""),
           got |-> [k \in HeaderKeys |-> ""], keys |-> <<>>]

InitWire ==
    /\ CBIdle
    /\ SagaIdle
    /\ NoteIdle
    /\ SvcIdle
    /\ \E c \in {"traced", "plain"}, e \in WireEvents, ss \in SetCalls :
          fn = [NoWire EXCEPT !.copy = c, !.event = e, !.sets = ss]

\* propagator.Inject(ctx, &carrier) of the traced PublishOrderEvent (part_001:194-196)
\* makes its next Set call
WireSet ==
    /\ fn.stage = "new"
    /\ fn.copy = "traced"
    /\ Len(fn.carrier) < Len(fn.sets)
    /\ LET call1 == fn.sets[Len(fn.carrier) + 1]
       IN  fn' = [fn EXCEPT !.carrier = CarrierSet(fn.carrier, call1[1], call1[2])]
    /\ UNCHANGED <<cbvars, sagavars, note, svc>>

\* PublishOrderEvent marshals the event and sends the message: with the carrier as
\* headers in the traced copy (part_001:181-199), without headers in
\* order-service/kafka/producer.go:28-40
WirePublish ==
    /\ fn.stage = "new"
    /\ fn.copy = "traced" => Len(fn.carrier) = Len(fn.sets)
    /\ fn' = [fn EXCEPT !.stage = "published",
                        !.value = Marshal(fn.event),
                        !.headers = IF fn.copy = "traced" THEN fn.carrier ELSE <<>>]
    /\ UNCHANGED <<cbvars, sagavars, note, svc>>

\* the saga consumer builds its carrier from the delivered headers, the propagator
\* reads it, and the value is decoded (part_002:56-76)
WireConsume ==
    /\ fn.stage = "published"
    /\ fn' = [fn EXCEPT !.stage = "consumed",
                        !.decoded = Unmarshal(fn.value),
                        !.got = [k \in HeaderKeys |-> CarrierGet(fn.headers, k)],
                        !.keys = CarrierKeys(fn.headers)]
    /\ UNCHANGED <<cbvars, sagavars, note, svc>>

NextWire == WireSet \/ WirePublish \/ WireConsume

SpecWire == InitWire /\ [][NextWire]_vars

(***************************************************************************)
(* The same events read by the payment and the notification consumer       *)
(***************************************************************************)
\* events of every type, and an object without an event_type member
EventSeqs ==
    UNION {[1..n -> {OrderEvent(ty, FirstOrderId, 20 + MaxUsers, OrderStatusPending, 100) :
                        ty \in EventTypes \cup {NoEventType}}] : n \in 1..MaxNotifyMsgs}

\* the value of an event as the notification consumer decodes it
PayloadOf(event) == [json |-> TRUE, eventType |-> event.eventType]

InitBoth ==
    /\ CBIdle
    /\ FnIdle
    /\ SvcIdle
    /\ orders = <<>>
    /\ payments = <<>>
    /\ \E evs \in EventSeqs :
          /\ bus = evs
          /\ note = [NoNote EXCEPT !.msgs = [i \in 1..Len(evs) |-> PayloadOf(evs[i])]]
    /\ procs = {}
    /\ payPos = 1
    /\ payMarked = 1
    /\ payCommitted = 1
    /\ restarts = 0
    /\ sagaPos = 1
    /\ paymentSuccessRate = 100
    /\ hist = NoHist

NextBoth == PaymentConsume \/ NextNotify

SpecBoth == InitBoth /\ [][NextBoth]_vars

(***************************************************************************)
(* The saga consumer and the notification consumer on the same events      *)
(***************************************************************************)
\* the outcomes payment-service recorded and published: a type and an order each
RaceOutcomes ==
    UNION {[1..n -> [type : {"payment_success", "payment_failed"}, orderId : OrderIds]] :
              n \in 1..MaxNotifyMsgs}

\* the Payment row of the i-th outcome
RaceRow(oc, i) ==
    [id |-> i, orderId |-> oc[i].orderId, userId |-> 20 + MaxUsers, amount |-> 100,
     status |-> IF oc[i].type = "payment_success" THEN PaymentStatusSuccess
                ELSE PaymentStatusFailed,
     transactionId |-> IF oc[i].type = "payment_success"
                       THEN TransactionID(oc[i].orderId, 0) ELSE NoTransaction]

\* both consumers are running and have consumed nothing yet; the orders are Pending
\* and payment-service has persisted and published its outcomes
InitRace ==
    /\ CBIdle
    /\ FnIdle
    /\ SvcIdle
    /\ orders = [o \in OrderIds |-> [status |-> OrderStatusPending, totalPrice |-> 100,
                                      userId |-> 20 + MaxUsers]]
    /\ \E oc \in RaceOutcomes :
          /\ payments = [i \in 1..Len(oc) |-> RaceRow(oc, i)]
          /\ bus = [i \in 1..Len(oc) |-> OutcomeEvent(RaceRow(oc, i))]
          /\ note = [NoNote EXCEPT !.msgs = [i \in 1..Len(oc) |-> PayloadOf(OutcomeEvent(RaceRow(oc, i)))],
                                   !.avail = Len(oc), !.pc = "recv", !.runs = 1]
    /\ procs = {}
    /\ payPos = 1
    /\ payMarked = 1
    /\ payCommitted = 1
    /\ restarts = 0
    /\ sagaPos = 1
    /\ paymentSuccessRate = 100
    /\ hist = NoHist

\* Variant of RaceNotifyAttempt: the notification waits for the saga consumer
RaceNotifyAttempt_wait ==
    /\ note.pc = "attempt"
    /\ sagaPos > note.pos
    /\ note' = NotifyAttemptOf(note)
    /\ hist' = [hist EXCEPT !.seen =
                   IF Len(note'.sent) > Len(note.sent) /\ bus[note.pos].orderId \in OrderIds
                   THEN [@ EXCEPT ![bus[note.pos].orderId] = orders[bus[note.pos].orderId].status]
                   ELSE @]
    /\ UNCHANGED <<cbvars, fn, svc, orders, payments, bus, procs, payPos, payMarked,
                   payCommitted, restarts, sagaPos, paymentSuccessRate>>

\* NotifyAttempt on the shared topic; hist.seen records the status the order had when
\* its notification was sent
RaceNotifyAttempt ==
    /\ note.pc = "attempt"
    /\ note' = NotifyAttemptOf(note)
    /\ hist' = [hist EXCEPT !.seen =
                   IF Len(note'.sent) > Len(note.sent) /\ bus[note.pos].orderId \in OrderIds
                   THEN [@ EXCEPT ![bus[note.pos].orderId] = orders[bus[note.pos].orderId].status]
                   ELSE @]
    /\ UNCHANGED <<cbvars, fn, svc, orders, payments, bus, procs, payPos, payMarked,
                   payCommitted, restarts, sagaPos, paymentSuccessRate>>

NextRace ==
    \/ NotifyReceive
    \/ RaceNotifyAttempt
    \/ SagaConsume

SpecRace == InitRace /\ [][NextRace]_vars

(***************************************************************************)
(* CreateOrder behind the product client's breaker                         *)
(***************************************************************************)
\* One whole Execute call at clock value n: the breaker afterwards and the error
\* returned (circuitbreaker.go:39-78)
Execute(c, n, ok) ==
    LET chk == ExecuteCheck(c, n)
    IN  IF chk.open THEN [cb |-> chk.cb, err |-> ErrCircuitOpen]
        ELSE [cb |-> ExecuteRecord(chk.cb, ok, n),
              err |-> IF ok THEN NoError ELSE ErrOperation]

\* what the product service and the stores answer to one request: check is "err"
\* (the RPC fails), "no" (not available) or "yes"; get, dbOk, pubOk are whether
\* GetProduct, the INSERT and the send succeed; an answer the request cannot reach
\* (the INSERT after a failed GetProduct, ...) is left at TRUE
Outcomes ==
    {out \in [check : {"err", "no", "yes"}, get : BOOLEAN, dbOk : BOOLEAN, pubOk : BOOLEAN] :
        /\ out.check # "yes" => (out.get /\ out.dbOk /\ out.pubOk)
        /\ ~out.get => (out.dbOk /\ out.pubOk)
        /\ ~out.dbOk => out.pubOk}

Rejected(c, db, log, calls, resp) ==
    [cb |-> c, db |-> db, log |-> log, calls |-> calls, resp |-> resp, proc |-> FALSE]

\* Variant of CreateOrder: the error of GetProduct is ignored
CreateOrder_noget(c, db, log, n, userId, totalPrice, out, rest) ==
    LET e1 == Execute(c, n, out.check # "err")
        id == FirstOrderId + Cardinality(DOMAIN db)
    IN  IF e1.err # NoError
        THEN Rejected(e1.cb, db, log, <<e1.err>>, IF rest THEN "503" ELSE "error")
        ELSE IF out.check = "no"
        THEN Rejected(e1.cb, db, log, <<e1.err>>, IF rest THEN "400" ELSE "not available")
        ELSE LET e2 == Execute(e1.cb, n, out.get)
             IN  IF ~out.dbOk
                 THEN Rejected(e2.cb, db, log, <<e1.err, e2.err>>,
                               IF rest THEN "500" ELSE "error")
                 ELSE [cb |-> e2.cb,
                       db |-> InsertOrder(db, id, userId, totalPrice),
                       log |-> Publish(log, OrderEvent("order_created", id, userId,
                                                       OrderStatusPending, totalPrice),
                                       out.pubOk),
                       calls |-> <<e1.err, e2.err>>,
                       resp |-> IF rest THEN "201" ELSE "success",
                       proc |-> rest]

\* CreateOrder of the REST handler (order_test.go:183-272, rest = TRUE) and of the
\* gRPC service (part_000:140-220, rest = FALSE), through ProductClient
\* (part_000:47-88): the breaker, tables and log afterwards, the errors the two
\* breaker-wrapped calls returned, the response, and whether processPayment started
CreateOrder(c, db, log, n, userId, totalPrice, out, rest) ==
    LET e1 == Execute(c, n, out.check # "err")
        id == FirstOrderId + Cardinality(DOMAIN db)
    IN  IF e1.err # NoError
        THEN Rejected(e1.cb, db, log, <<e1.err>>, IF rest THEN "503" ELSE "error")
        ELSE IF out.check = "no"
        THEN Rejected(e1.cb, db, log, <<e1.err>>, IF rest THEN "400" ELSE "not available")
        ELSE LET e2 == Execute(e1.cb, n, out.get)
             IN  IF e2.err # NoError
                 THEN Rejected(e2.cb, db, log, <<e1.err, e2.err>>,
                               IF rest THEN "503" ELSE "error")
                 ELSE IF ~out.dbOk
                 THEN Rejected(e2.cb, db, log, <<e1.err, e2.err>>,
                               IF rest THEN "500" ELSE "error")
                 ELSE [cb |-> e2.cb,
                       db |-> InsertOrder(db, id, userId, totalPrice),
                       log |-> Publish(log, OrderEvent("order_created", id, userId,
                                                       OrderStatusPending, totalPrice),
                                       out.pubOk),
                       calls |-> <<e1.err, e2.err>>,
                       resp |-> IF rest THEN "201" ELSE "success",
                       proc |-> rest]

NoAdmit == [n |-> 0, rest |-> FALSE, out |-> [check |-> "yes", get |-> TRUE,
                                              dbOk |-> TRUE, pubOk |-> TRUE],
            calls |-> <<>>, resp |-> "", cb0 |-> NewCircuitBreaker(1, 0),
            orders0 |-> <<>>, bus0 |-> <<>>]

InitAdmit ==
    /\ \E mf \in 1..MaxFailuresBound, rt \in 0..MaxResetTimeout :
          /\ cb = NewCircuitBreaker(mf, rt)
          /\ seqcb = NewCircuitBreaker(mf, rt)
    /\ mu = NoOwner
    /\ now = 0
    /\ pc = [t \in Callers |-> "idle"]
    /\ call = [t \in Callers |-> NoCall]
    /\ failRun = 0
    /\ longRun = FALSE
    /\ rejected = FALSE
    /\ SagaIdle
    /\ NoteIdle
    /\ SvcIdle
    /\ fn = NoAdmit

Admitted(rest, out, r) ==
    /\ cb' = r.cb
    /\ orders' = r.db
    /\ bus' = r.log
    /\ procs' = IF r.proc THEN procs \cup (DOMAIN r.db \ DOMAIN orders) ELSE procs
    /\ fn' = [n |-> fn.n + 1, rest |-> rest, out |-> out, calls |-> r.calls,
              resp |-> r.resp, cb0 |-> cb, orders0 |-> orders, bus0 |-> bus]
    /\ UNCHANGED <<mu, now, pc, call, failRun, longRun, rejected, seqcb, note, svc, payments,
                   payPos, payMarked, payCommitted, restarts, sagaPos,
                   paymentSuccessRate, hist>>

\* one POST /orders request handled from beginning to end
AdmitREST ==
    /\ fn.n < MaxRequests
    /\ Cardinality(DOMAIN orders) < MaxOrders
    /\ \E userId \in UserIds, totalPrice \in {a \in Amounts : a >= 0}, out \in Outcomes :
          Admitted(TRUE, out, CreateOrder(cb, orders, bus, now, userId, totalPrice, out, TRUE))

\* one CreateOrder RPC handled from beginning to end
AdmitGRPC ==
    /\ fn.n < MaxRequests
    /\ Cardinality(DOMAIN orders) < MaxOrders
    /\ \E userId \in UserIds, totalPrice \in Amounts, out \in Outcomes :
          Admitted(FALSE, out, CreateOrder(cb, orders, bus, now, userId, totalPrice, out, FALSE))

\* time passes between two requests
AdmitTick ==
    /\ now < MaxTime
    /\ now' = now + 1
    /\ UNCHANGED <<cb, mu, pc, call, failRun, longRun, rejected, seqcb, sagavars, fn, note, svc>>

NextAdmit == AdmitREST \/ AdmitGRPC \/ AdmitTick

SpecAdmit == InitAdmit /\ [][NextAdmit]_vars

(***************************************************************************)
(* ProductClient: two calls, one breaker                                   *)
(***************************************************************************)
\* Variant of GetProductBreaker: GetProduct has a breaker of its own
GetProductBreaker_own == "own"

\* the breaker ProductClient.GetProduct goes through (part_000:73): pc.circuitBreaker,
\* the one CheckAvailability uses (part_000:51)
GetProductBreaker == "shared"

\* pending is the number of requests that were told the product is available and
\* have not yet called GetProduct; prev and prevErr are the call before the last
NoClient == [method |-> "none", ok |-> FALSE, err |-> Pending,
             cb0 |-> NewCircuitBreaker(1, 0), now0 |-> 0, pending |-> 0,
             prev |-> "none", prevErr |-> Pending]

\* InitProductClient (part_000:25-45); seqcb is a second breaker, which the client
\* does not have and never uses
InitClient ==
    /\ \E mf \in 1..MaxFailuresBound, rt \in 0..MaxResetTimeout :
          /\ cb = NewCircuitBreaker(mf, rt)
          /\ seqcb = NewCircuitBreaker(mf, rt)
    /\ mu = NoOwner
    /\ now = 0
    /\ pc = [t \in Callers |-> "idle"]
    /\ call = [t \in Callers |-> NoCall]
    /\ failRun = 0
    /\ longRun = FALSE
    /\ rejected = FALSE
    /\ SagaIdle
    /\ NoteIdle
    /\ SvcIdle
    /\ fn = NoClient

\* ProductClient.CheckAvailability (part_000:47-68), called at the start of a
\* CreateOrder request: ok is whether the RPC succeeds, available its answer
ClientCheckAvailability ==
    /\ fn.pending < NumCallers
    /\ \E ok \in BOOLEAN, available \in BOOLEAN :
          LET r == Execute(cb, now, ok)
          IN  /\ cb' = r.cb
              /\ fn' = [method |-> "CheckAvailability", ok |-> ok, err |-> r.err,
                        cb0 |-> cb, now0 |-> now,
                        pending |-> IF r.err = NoError /\ available
                                    THEN fn.pending + 1 ELSE fn.pending,
                        prev |-> fn.method, prevErr |-> fn.err]
    /\ UNCHANGED <<mu, now, pc, call, failRun, longRun, rejected, seqcb, sagavars, note, svc>>

\* ProductClient.GetProduct (part_000:70-88), called by a request whose
\* CheckAvailability said the product is available
ClientGetProduct ==
    /\ fn.pending > 0
    /\ \E ok \in BOOLEAN :
          LET shared == GetProductBreaker = "shared"
              r == Execute(IF shared THEN cb ELSE seqcb, now, ok)
          IN  /\ cb' = IF shared THEN r.cb ELSE cb
              /\ seqcb' = IF shared THEN seqcb ELSE r.cb
              /\ fn' = [method |-> "GetProduct", ok |-> ok, err |-> r.err,
                        cb0 |-> cb, now0 |-> now, pending |-> fn.pending - 1,
                        prev |-> fn.method, prevErr |-> fn.err]
    /\ UNCHANGED <<mu, now, pc, call, failRun, longRun, rejected, sagavars, note, svc>>

ClientTick ==
    /\ now < MaxTime
    /\ now' = now + 1
    /\ UNCHANGED <<cb, mu, pc, call, failRun, longRun, rejected, seqcb, sagavars, fn, note, svc>>

NextClient == ClientCheckAvailability \/ ClientGetProduct \/ ClientTick

SpecClient == InitClient /\ [][NextClient]_vars

(***************************************************************************)
(* product-service GetProduct behind its breaker                           *)
(***************************************************************************)
ProductMaxFailures == 5        \* NewCircuitBreaker(5, 30*time.Second)
ProductResetTimeout == 1       \* 30 seconds; the clock of this specification ticks every 30 s

ProductIds == {1, 2}           \* the ids requested
ExistingProducts == {1}        \* the ids that have a row in products

\* Variant of GetProduct: a lookup that finds no row is not reported to the breaker
GetProduct_foundornot(c, cache, n, id, cacheOk, dbOk, setOk) ==
    IF cacheOk /\ id \in cache
    THEN [cb |-> c, cache |-> cache, status |-> 200, hit |-> TRUE, queried |-> FALSE]
    ELSE LET found == id \in ExistingProducts
             r == Execute(c, n, dbOk)
         IN  IF r.err = ErrCircuitOpen
             THEN [cb |-> r.cb, cache |-> cache, status |-> 503, hit |-> FALSE, queried |-> FALSE]
             ELSE IF ~dbOk
             THEN [cb |-> r.cb, cache |-> cache, status |-> 500, hit |-> FALSE, queried |-> TRUE]
             ELSE IF ~found
             THEN [cb |-> r.cb, cache |-> cache, status |-> 404, hit |-> FALSE, queried |-> TRUE]
             ELSE [cb |-> r.cb, cache |-> IF setOk THEN cache \cup {id} ELSE cache,
                   status |-> 200, hit |-> FALSE, queried |-> TRUE]

\* ProductHandler.GetProduct (product.go:65-114) at clock value n: cache is the set of
\* ids Redis holds, cacheOk whether cache.GetProduct answers, dbOk whether the SELECT
\* runs without an error other than sql.ErrNoRows, setOk whether cache.SetProduct
\* stores the product. status is the HTTP status, queried whether the SELECT ran.
GetProduct(c, cache, n, id, cacheOk, dbOk, setOk) ==
    IF cacheOk /\ id \in cache
    THEN \* lines 73-81: served from the cache, the breaker is not called
         [cb |-> c, cache |-> cache, status |-> 200, hit |-> TRUE, queried |-> FALSE]
    ELSE LET found == id \in ExistingProducts
             r == Execute(c, n, dbOk /\ found)          \* lines 87-92
         IN  IF r.err = ErrCircuitOpen                   \* lines 95-99
             THEN [cb |-> r.cb, cache |-> cache, status |-> 503, hit |-> FALSE, queried |-> FALSE]
             ELSE IF ~dbOk                               \* lines 104-107
             THEN [cb |-> r.cb, cache |-> cache, status |-> 500, hit |-> FALSE, queried |-> TRUE]
             ELSE IF ~found                              \* lines 100-103
             THEN [cb |-> r.cb, cache |-> cache, status |-> 404, hit |-> FALSE, queried |-> TRUE]
             ELSE \* lines 110-113
                  [cb |-> r.cb, cache |-> IF setOk THEN cache \cup {id} ELSE cache,
                   status |-> 200, hit |-> FALSE, queried |-> TRUE]

\* run is the number of not-found lookups that reached the database since the last
\* lookup that reached it with another result (counted up to ProductMaxFailures)
NoProduct == [cache |-> {}, id |-> 0, status |-> 0, hit |-> FALSE, queried |-> FALSE,
              cb0 |-> NewCircuitBreaker(ProductMaxFailures, ProductResetTimeout),
              now0 |-> 0, run |-> 0]

InitProduct ==
    /\ cb = NewCircuitBreaker(ProductMaxFailures, ProductResetTimeout)
    /\ seqcb = NewCircuitBreaker(ProductMaxFailures, ProductResetTimeout)
    /\ mu = NoOwner
    /\ now = 0
    /\ pc = [t \in Callers |-> "idle"]
    /\ call = [t \in Callers |-> NoCall]
    /\ failRun = 0
    /\ longRun = FALSE
    /\ rejected = FALSE
    /\ SagaIdle
    /\ NoteIdle
    /\ SvcIdle
    /\ fn = NoProduct

\* one GET /products/:id
ProductGet ==
    /\ \E id \in ProductIds, cacheOk \in BOOLEAN, dbOk \in BOOLEAN, setOk \in BOOLEAN :
          LET r == GetProduct(cb, fn.cache, now, id, cacheOk, dbOk, setOk)
          IN  /\ cb' = r.cb
              /\ fn' = [cache |-> r.cache, id |-> id, status |-> r.status, hit |-> r.hit,
                        queried |-> r.queried, cb0 |-> cb, now0 |-> now,
                        run |-> IF ~r.queried THEN fn.run
                                ELSE IF r.status # 404 THEN 0
                                ELSE IF fn.run < ProductMaxFailures THEN fn.run + 1
                                ELSE fn.run]
    /\ UNCHANGED <<mu, now, pc, call, failRun, longRun, rejected, seqcb, sagavars, note, svc>>

\* the five minutes of a cached product are over, or UpdateProduct or DeleteProduct
\* removed it from the cache (product.go:111, 198, 226)
ProductCacheExpire ==
    /\ \E id \in fn.cache : fn' = [fn EXCEPT !.cache = @ \ {id}]
    /\ UNCHANGED <<cbvars, sagavars, note, svc>>

ProductTick ==
    /\ now < MaxTime
    /\ now' = now + 1
    /\ UNCHANGED <<cb, mu, pc, call, failRun, longRun, rejected, seqcb, sagavars, fn, note, svc>>

NextProduct == ProductGet \/ ProductCacheExpire \/ ProductTick

SpecProduct == InitProduct /\ [][NextProduct]_vars

(***************************************************************************)
(* Circuit breaker claims                                                  *)
(***************************************************************************)
InCall(t) == pc[t] \in {"fn", "ret"}
Holding(t) == pc[t] \in {"check", "fn", "ret"}
Elapsed(t) == Since(call[t].pre.lastFailureTime, call[t].preNow)

\* C1: after maxFailures consecutive failed operations the breaker is Open (whenever
\* no call is in progress), and a call that finds it Open with at most resetTimeout
\* elapsed since the last failure returns ErrCircuitOpen and never invokes fn.
C1_OpensAfterMaxFailures ==
    /\ (mu = NoOwner /\ failRun >= cb.maxFailures) => cb.state = StateOpen
    /\ \A t \in Callers :
          (InCall(t) /\ call[t].pre.state = StateOpen /\ Elapsed(t) <= cb.resetTimeout)
             => (pc[t] = "ret" /\ call[t].ret = ErrCircuitOpen /\ call[t].invoked = 0)

C1_Witness ==
    \E t \in Callers :
       /\ pc[t] = "ret" /\ call[t].ret = ErrCircuitOpen
       /\ cb.maxFailures = 3 /\ failRun = 3
       /\ cb.resetTimeout >= 1 /\ Elapsed(t) = cb.resetTimeout

\* C2: a call that finds the breaker Open with more than resetTimeout elapsed invokes
\* fn once in HalfOpen with failureCount 0; a success ends Closed with failureCount 0,
\* a failure ends Open with lastFailureTime set to the time of that failure.
C2_ProbeAfterTimeout ==
    \A t \in Callers :
       (InCall(t) /\ call[t].pre.state = StateOpen /\ Elapsed(t) > cb.resetTimeout)
          => /\ call[t].invoked = 1
             /\ pc[t] = "fn" => (cb.state = StateHalfOpen /\ cb.failureCount = 0)
             /\ pc[t] = "ret" =>
                   IF call[t].fnOk
                   THEN call[t].ret = NoError /\ cb.state = StateClosed /\ cb.failureCount = 0
                   ELSE /\ call[t].ret = ErrOperation
                        /\ cb.state = StateOpen
                        /\ cb.lastFailureTime = call[t].retNow
                        /\ cb.lastFailureTime >= call[t].preNow

C2_Witness ==
    \E t \in Callers :
       /\ pc[t] = "ret" /\ call[t].pre.state = StateOpen /\ call[t].ret = ErrOperation
       /\ cb.maxFailures > 1 /\ cb.state = StateOpen
       /\ cb.lastFailureTime > call[t].pre.lastFailureTime + cb.resetTimeout

\* C3: a call rejected with ErrCircuitOpen did not invoke fn and left state,
\* failureCount and lastFailureTime exactly as it found them.
C3_RejectHasNoEffect ==
    \A t \in Callers :
       (pc[t] = "ret" /\ call[t].ret = ErrCircuitOpen)
          => (call[t].invoked = 0 /\ cb = call[t].pre)

C3_Witness ==
    \E t \in Callers :
       /\ pc[t] = "ret" /\ call[t].ret = ErrCircuitOpen
       /\ call[t].preNow > cb.lastFailureTime

\* C4: at most one caller is between Lock and Unlock and at most one fn is running;
\* what the holder sees is only its own check and update; and whenever no call is
\* in progress the breaker equals the one obtained by running the completed calls
\* one after another in the order they released the lock.
C4_Serialized ==
    /\ Cardinality({t \in Callers : Holding(t)}) <= 1
    /\ Cardinality({t \in Callers : pc[t] = "fn"}) <= 1
    /\ \A t \in Callers : Holding(t) => mu = t
    /\ \A t \in Callers :
          /\ pc[t] = "fn" => cb = ExecuteCheck(call[t].pre, call[t].preNow).cb
          /\ pc[t] = "ret" => cb = ExecuteSeq(call[t].pre, call[t].preNow,
                                              call[t].fnOk, call[t].retNow)
    /\ mu = NoOwner => cb = seqcb

C4_Witness ==
    \E t, u \in Callers :
       /\ t # u /\ pc[t] = "fn" /\ pc[u] = "lock"
       /\ cb.state = StateHalfOpen /\ now > call[t].preNow

\* C5: a success while Closed resets failureCount to 0; as long as no run of
\* consecutive failures has reached maxFailures the breaker is Closed and no call
\* has been rejected.
C5_SuccessClearsFailures ==
    /\ ~longRun => (cb.state = StateClosed /\ ~rejected /\ cb.failureCount = failRun)
    /\ \A t \in Callers :
          (pc[t] = "ret" /\ call[t].pre.state = StateClosed /\ call[t].ret = NoError)
             => cb.failureCount = 0

C5_Witness ==
    \E t \in Callers :
       /\ pc[t] = "ret" /\ call[t].ret = NoError /\ ~longRun
       /\ call[t].pre.failureCount = cb.maxFailures - 1 /\ cb.maxFailures >= 2
       /\ cb.failureCount = 0

(***************************************************************************)
(* Saga consumer claims                                                    *)
(***************************************************************************)
\* the table db0 with the status of row id replaced by st, every other row as it was
OnlyStatusSet(db, db0, id, st) ==
    /\ DOMAIN db = DOMAIN db0
    /\ \A o \in DOMAIN db0 :
          /\ db[o].totalPrice = db0[o].totalPrice
          /\ db[o].userId = db0[o].userId
          /\ db[o].status = IF o = id THEN st ELSE db0[o].status

\* C6: once the saga consumer has handled an event without error, order_paid or
\* payment_success has set the order of the event's orderId to Paid, order_failed or
\* payment_failed has set it to Failed, and every other event type has left the
\* orders table unchanged and never returns an error.
C6_TransitionRule ==
    fn.n >= 1 =>
       CASE fn.event.eventType \in {"order_paid", "payment_success"} ->
               ~fn.err => OnlyStatusSet(orders, fn.db0, fn.event.orderId, OrderStatusPaid)
         [] fn.event.eventType \in {"order_failed", "payment_failed"} ->
               ~fn.err => OnlyStatusSet(orders, fn.db0, fn.event.orderId, OrderStatusFailed)
         [] OTHER -> ~fn.err /\ orders = fn.db0

\* C7: after the same event has been applied successfully one or more times the
\* orders table is the one left by its first successful application.
C7_Idempotent ==
    fn.oks >= 1 => orders = fn.once

C7_Witness ==
    /\ fn.oks = 2
    /\ fn.event.eventType = "payment_success"
    /\ fn.event.orderId \in DOMAIN orders
    /\ fn.db0[fn.event.orderId].status = OrderStatusFailed
    /\ orders[fn.event.orderId].status = OrderStatusPaid

(***************************************************************************)
(* Pipeline claims                                                         *)
(***************************************************************************)
RowsOf(o) == {i \in 1..Len(payments) : payments[i].orderId = o}
SuccessRowsOf(o) == {i \in RowsOf(o) : payments[i].status = PaymentStatusSuccess}
EventsOf(o, type) == {i \in 1..Len(bus) : bus[i].orderId = o /\ bus[i].eventType = type}
Quiescent == payPos > Len(bus) /\ sagaPos > Len(bus) /\ procs = {}

\* C8: once every published event has been consumed, the status of each order is the
\* status it has in the run without the events that redeliveries of order_created
\* to the payment consumer produced (stated for the runs in which no send and no
\* database statement of the two consumers failed).
C8_RedeliveryKeepsFinalStatus ==
    (Quiescent /\ ~hist.faults) => \A o \in DOMAIN orders : orders[o].status = hist.once[o]

\* C9: an order that is Paid or Failed keeps that status in every step, and every
\* status the saga consumer writes is Paid or Failed.
C9_PaidFailedTerminal ==
    [][\A o \in DOMAIN orders :
          /\ orders[o].status \in {OrderStatusPaid, OrderStatusFailed}
                => orders'[o].status = orders[o].status
          /\ orders'[o].status # orders[o].status
                => orders'[o].status \in {OrderStatusPaid, OrderStatusFailed}]_vars

PayCompleted == fn.n >= 1 /\ fn.event.eventType = "order_created" /\ ~fn.err
LastRow == payments[Len(payments)]
LastEvent == bus[Len(bus)]
PaymentEventsOnBus == {i \in 1..Len(bus) : bus[i].paymentId # 0}

C13_StatusTransactionEvent ==
    /\ \A i \in 1..Len(payments) :
          /\ payments[i].status \in {PaymentStatusSuccess, PaymentStatusFailed}
          /\ payments[i].status = PaymentStatusSuccess
                <=> payments[i].transactionId # NoTransaction
    /\ \A i \in PaymentEventsOnBus :
          /\ bus[i].paymentId \in 1..Len(payments)
          /\ bus[i].status = payments[bus[i].paymentId].status
          /\ bus[i].transactionId = payments[bus[i].paymentId].transactionId
          /\ bus[i].eventType =
                IF bus[i].status = PaymentStatusSuccess
                THEN "payment_success" ELSE "payment_failed"

C13_Witness ==
    /\ Len(payments) = 2 /\ Len(bus) = 2
    /\ payments[1].status = PaymentStatusSuccess
    /\ payments[2].status = PaymentStatusFailed
    /\ payments[2].amount > 0
    /\ bus[1].eventType = "payment_success"
    /\ bus[2].eventType = "payment_failed"

\* C14: no two Payment rows with status Success carry the same transactionId.
C14_UniqueTransactionId ==
    \A i, j \in 1..Len(payments) :
       (i # j /\ payments[i].status = PaymentStatusSuccess
              /\ payments[j].status = PaymentStatusSuccess)
          => payments[i].transactionId # payments[j].transactionId

\* C15: the number of Payment rows of an order is the number of deliveries of its
\* order_created event that the handler processed, and each processed delivery
\* appends one row to the table and touches no other row.
C15_OneRowPerDelivery ==
    /\ \A o \in OrderIds : Cardinality(RowsOf(o)) = fn.done[o]
    /\ PayCompleted => payments = Append(fn.payments0, fn.row)
    /\ fn.n >= 1 /\ ~PayCompleted => payments = fn.payments0

C15_Witness ==
    \E o \in OrderIds :
       /\ fn.done[o] = 2
       /\ Cardinality(RowsOf(o)) = 2
       /\ PayCompleted /\ fn.event.orderId = o

(***************************************************************************)
(* Redelivery claims                                                       *)
(***************************************************************************)
\* C16: the offset of an order_created message for which no Payment row has been
\* written (its INSERT failed, or it has not been handled yet) is not committed, so
\* that the message is delivered again to the payment consumer.
C16_FailedPersistNotCommitted ==
    \A p \in 1..Len(bus) :
       (bus[p].eventType = "order_created" /\ hist.done[bus[p].orderId] = 0)
          => payCommitted <= p

\* C17: when the saga consumer's UPDATE has failed for a payment_success event of an
\* order, the order's status is Paid at some later time.
C17_FailedUpdateRetried ==
    \A o \in OrderIds :
       hist.lost[o] ~> (o \in DOMAIN orders /\ orders[o].status = OrderStatusPaid)

(***************************************************************************)
(* Notification consumer claims                                            *)
(***************************************************************************)
Undecodable(payload) == ~payload.json \/ payload.eventType = NoEventType
\* the message being handled (recv: none) as a log entry so far
NoteCurrent ==
    IF note.pc \notin {"attempt", "backoff"} THEN {}
    ELSE {[payload |-> note.msgs[note.pos], attempts |-> note.tries, waits |-> note.waits]}
NoteHandled == {[payload |-> note.log[i].payload, attempts |-> note.log[i].attempts,
                 waits |-> note.log[i].waits] : i \in 1..Len(note.log)}

\* C18: a payload the notification consumer cannot decode, or without a string
\* event_type, is passed to handleMessage once, and no backoff is waited for it.
C18_UndecodableHandledOnce ==
    \A h \in NoteCurrent \cup NoteHandled :
       Undecodable(h.payload) => h.attempts <= 1 /\ h.waits = <<>>

TakenAt(p) == {i \in 1..Len(note.taken) : note.taken[i] = p}

\* C21: a message whose every attempt failed is logged as exhausted and the loop goes
\* on after it: the consumer's position is past it, and the message is passed to the
\* retry loop once only, in this run of the service and in every later one.
C21_ExhaustedIsTerminal ==
    \A i \in 1..Len(note.log) :
       note.log[i].err =>
          /\ note.log[i].attempts = note.maxRetries
          /\ Cardinality(TakenAt(note.log[i].pos)) = 1
          /\ note.pos > note.log[i].pos

C21_Witness ==
    /\ Len(note.log) = 2
    /\ note.log[1].err
    /\ note.log[2].pos > note.log[1].pos
    /\ note.runs = 2

\* C22: every message appended to the partition is at some time passed to the
\* notification consumer's handler.
C22_EveryEventDelivered ==
    \A p \in 1..MaxNotifyMsgs :
       (p <= note.avail) ~> (TakenAt(p) # {})

\* C27: the notification service does not exit while its consumer is handling a
\* message or waiting out a retry backoff.
C27_ExitWaitsForHandler == note.aborted = {}

(***************************************************************************)
(* Order admission and breaker availability                                *)
(***************************************************************************)
\* C23: every order CreateOrder has inserted (and answered with success) is at some
\* later time no longer Pending, when the consumers keep running.
C23_OrderLeavesPending ==
    \A o \in OrderIds :
       (o \in DOMAIN orders)
          ~> (o \in DOMAIN orders /\ orders[o].status # OrderStatusPending)

\* C24: while the breaker is not Closed, no caller of Execute waits at the mutex
\* while another caller's wrapped operation is running.
C24_NoWaitWhileNotClosed ==
    \A t, u \in Callers :
       ~(cb.state # StateClosed /\ pc[t] = "lock" /\ pc[u] = "fn")

\* C25: a request whose CheckAvailability or GetProduct call returned an error
\* (ErrCircuitOpen included) is answered 503 or with a gRPC error and leaves the
\* orders table and the log as they were; a request that inserted an order made both
\* calls without error and was told the product is available.
C25_BreakerErrorRejects ==
    fn.n > 0 =>
       /\ (\E i \in 1..Len(fn.calls) : fn.calls[i] # NoError)
             => /\ fn.resp = (IF fn.rest THEN "503" ELSE "error")
                /\ orders = fn.orders0
                /\ bus = fn.bus0
       /\ orders # fn.orders0
             => /\ fn.calls = <<NoError, NoError>>
                /\ fn.out.check = "yes"
                /\ fn.resp = (IF fn.rest THEN "201" ELSE "success")
       /\ bus # fn.bus0 => orders # fn.orders0

C25_Witness ==
    /\ fn.n = 3
    /\ fn.calls = <<ErrCircuitOpen>>
    /\ fn.resp = "503"
    /\ Cardinality(DOMAIN orders) = 1
    /\ Len(bus) = 1

(***************************************************************************)
(* payment-service shutdown                                                *)
(***************************************************************************)
\* the message being handled at the signal has been handled to its end before main
\* returns
PayStopInFlightCompletes ==
    (svc.main = "returned" /\ svc.inflight # 0) => svc.inflight \in svc.completed

\* main returns only after the consumer goroutine has finished
PayStopMainWaits == svc.main = "returned" => svc.loop = "finished"

\* C26: after the cancellation the consumer takes no new message, the message it was
\* handling is handled to its end, and main returns only after the consumer
\* goroutine has finished.
C26_GracefulPaymentShutdown ==
    /\ svc.after = {}
    /\ PayStopInFlightCompletes
    /\ PayStopMainWaits

(***************************************************************************)
(* Event and carrier round trips                                           *)
(***************************************************************************)
\* C28: the OrderEvent the saga consumer decodes equals the published one, field
\* for field.
C28_OrderEventRoundTrip ==
    fn.stage = "consumed" =>
       /\ fn.decoded.orderId = fn.event.orderId
       /\ fn.decoded.userId = fn.event.userId
       /\ fn.decoded.productId = fn.event.productId
       /\ fn.decoded.quantity = fn.event.quantity
       /\ fn.decoded.status = fn.event.status
       /\ fn.decoded.totalPrice = fn.event.totalPrice
       /\ fn.decoded.eventType = fn.event.eventType

C28_Witness ==
    /\ fn.stage = "consumed"
    /\ fn.event.orderId = 15
    /\ fn.event.quantity = 12
    /\ fn.event.totalPrice = -100
    /\ fn.decoded = fn.event

\* the value of the last Set call for a key, the empty string when there is none
LastSet(sets, key) ==
    LET at == {i \in 1..Len(sets) : sets[i][1] = key}
    IN  IF at = {} THEN "" ELSE sets[CHOOSE i \in at : \A j \in at : j <= i][2]

\* C29: on the consumer's carrier Get(key) is the value most recently set for the
\* key by the publisher (the empty string for a key never set), and Keys() lists
\* every key set.
C29_CarrierRoundTrip ==
    fn.stage = "consumed" =>
       /\ \A k \in HeaderKeys : fn.got[k] = LastSet(fn.sets, k)
       /\ \A i \in 1..Len(fn.sets) : \E j \in 1..Len(fn.keys) : fn.keys[j] = fn.sets[i][1]

(***************************************************************************)
(* Event types without a handler                                           *)
(***************************************************************************)
Unhandled(payload) ==
    payload.json /\ payload.eventType \notin NotifiedTypes \cup {NoEventType}

\* C30: the payment consumer handling an event that is not order_created leaves the
\* payments table and the log as they are and marks the message (it returned no
\* error); the notification consumer handling an event that is none of
\* order_created, payment_success, payment_failed records no notification, returns
\* no error and attempts the message once, without a wait.
C30_UnhandledTypesIgnored ==
    /\ [][(payPos' = payPos + 1 /\ bus[payPos].eventType # "order_created")
             => (payments' = payments /\ bus' = bus /\ payMarked' = payPos + 1)]_vars
    /\ [](\A i \in 1..Len(note.log) :
             Unhandled(note.log[i].payload)
                => /\ ~note.log[i].err
                   /\ note.log[i].attempts = 1
                   /\ note.log[i].waits = <<>>
                   /\ note.log[i].sent = <<>>)

C30_Witness ==
    /\ payPos = 3
    /\ bus[1].eventType = "order_shipped"
    /\ bus[2].eventType = "payment_success"
    /\ payMarked = 3
    /\ payments = <<>>
    /\ Len(note.log) = 2
    /\ note.log[1].payload.eventType = "order_shipped"
    /\ note.log[2].sent = <<"payment_success">>

(***************************************************************************)
(* The payment success rate                                                *)
(***************************************************************************)
\* C31: the success rate is the setting clamped to [0, 1], and 0.8 when the setting
\* is absent or not a number; with rate 1 every handled order_created of positive
\* amount is decided Success and with rate 0 every one is decided Failed, whatever
\* the draw.
C31_RateClampedAndDecisive ==
    /\ \A raw \in RawRates :
          /\ loadSuccessRate(raw) \in 0..100
          /\ (~raw.set \/ ~raw.number) => loadSuccessRate(raw) = 80
          /\ (raw.set /\ raw.number /\ raw.value \in 0..100) => loadSuccessRate(raw) = raw.value
    /\ paymentSuccessRate \in Rates
    /\ (PayCompleted /\ fn.copy = "traced" /\ fn.event.amount > 0)
          => /\ paymentSuccessRate = 100 => LastRow.status = PaymentStatusSuccess
             /\ paymentSuccessRate = 0 => LastRow.status = PaymentStatusFailed

(***************************************************************************)
(* Breaker recovery                                                        *)
(***************************************************************************)
\* a step in which the wrapped operation returns an error
FnFails == \E t \in Callers : pc[t] = "fn" /\ pc'[t] = "ret" /\ call'[t].ret = ErrOperation

\* the clock of the model can still pass the reset timeout of the last failure
ClockHasRoom == cb.lastFailureTime + cb.resetTimeout < MaxTime

\* C32: if from some point on the wrapped operation always succeeds, and callers keep
\* calling Execute while time advances, the breaker is eventually Closed and from
\* then on no call is rejected with ErrCircuitOpen.
C32_EventuallyClosedForGood ==
    (<>[][~FnFails]_vars /\ []ClockHasRoom)
        => <>[](cb.state = StateClosed /\ \A t \in Callers : call[t].ret # ErrCircuitOpen)

\* a probe of an Open breaker has succeeded and closed it
C32_Witness ==
    \E t \in Callers :
        /\ pc[t] = "ret"
        /\ call[t].pre.state = StateOpen
        /\ call[t].ret = NoError
        /\ cb.state = StateClosed
        /\ rejected

(***************************************************************************)
(* Order status and the recorded payment decision                          *)
(***************************************************************************)
\* C33: whenever the status of an order is Paid a Payment row with status Success
\* exists for its orderId, and whenever it is Failed a Payment row with status Failed
\* exists for its orderId.
C33_StatusHasPaymentRow ==
    \A o \in DOMAIN orders :
        /\ orders[o].status = OrderStatusPaid
              => \E i \in DOMAIN payments :
                    payments[i].orderId = o /\ payments[i].status = PaymentStatusSuccess
        /\ orders[o].status = OrderStatusFailed
              => \E i \in DOMAIN payments :
                    payments[i].orderId = o /\ payments[i].status = PaymentStatusFailed

(***************************************************************************)
(* Independent consumers                                                   *)
(***************************************************************************)
\* C34: the notification consumer and the saga consumer process the same
\* payment_success event independently and neither waits for the other: the
\* notification consumer can handle the message it holds whatever the saga consumer
\* has consumed, the saga consumer can consume its next message whatever the
\* notification consumer has handled, and neither changes what the other works on.
\* Both orders occur: a notification sent while the order is Pending, and one sent
\* after it became Paid.
C34_NeitherWaits ==
    /\ [](note.pc = "attempt" => ENABLED RaceNotifyAttempt)
    /\ [](sagaPos <= Len(bus) => ENABLED SagaConsume)
    /\ [][/\ note' # note => (orders' = orders /\ sagaPos' = sagaPos)
          /\ sagaPos' # sagaPos => note' = note]_vars

\* one notification was sent while its order was Pending, another after its order
\* had become Paid
C34_Witness ==
    \E a, b \in OrderIds :
        /\ hist.seen[a] = OrderStatusPending
        /\ hist.seen[b] = OrderStatusPaid
        /\ \E i, j \in DOMAIN bus :
              /\ bus[i].eventType = "payment_success" /\ bus[i].orderId = a
              /\ bus[j].eventType = "payment_success" /\ bus[j].orderId = b

(***************************************************************************)
(* HalfOpen is transient                                                   *)
(***************************************************************************)
\* C35: HalfOpen exists only inside a single Execute call: while no call holds the
\* breaker, and whenever a call is returning, the state is Closed or Open, and
\* GetState never returns HalfOpen.
C35_HalfOpenOnlyInsideExecute ==
    /\ mu = NoOwner => cb.state \in {StateClosed, StateOpen}
    /\ \A t \in Callers :
          /\ pc[t] = "ret" => cb.state \in {StateClosed, StateOpen}
          /\ cb.state = StateHalfOpen => (mu # NoOwner /\ (mu = t => pc[t] = "fn"))
          /\ StateHalfOpen \notin call[t].got

\* a probe of an Open breaker is returning while another caller has read the state
C35_Witness ==
    \E t, u \in Callers :
        /\ pc[u] = "ret"
        /\ call[u].pre.state = StateOpen
        /\ call[u].invoked = 1
        /\ call[t].got # {}

(***************************************************************************)
(* The breaker's record                                                    *)
(***************************************************************************)
\* C36: for maxFailures >= 1, after every completed Execute call failureCount is
\* between 0 and maxFailures, Closed implies failureCount < maxFailures, and Open
\* implies failureCount >= 1 and a recorded lastFailureTime; the state changes only
\* inside Execute, never by the passage of time alone.
C36_RecordWellFormed ==
    /\ []((mu = NoOwner \/ \E t \in Callers : pc[t] = "ret")
            => /\ cb.failureCount \in 0..cb.maxFailures
               /\ cb.state = StateClosed => cb.failureCount < cb.maxFailures
               /\ cb.state = StateOpen => (cb.failureCount >= 1 /\ cb.lastFailureTime # ZeroTime))
    /\ [][/\ cb'.state # cb.state => \E t \in Callers : mu = t /\ pc[t] \in {"check", "fn"}
          /\ now' # now => cb' = cb]_vars

\* a failed probe has left the breaker Open below maxFailures, and time has passed
\* since without changing it
C36_Witness ==
    /\ mu = NoOwner
    /\ cb.state = StateOpen
    /\ cb.failureCount = 1
    /\ cb.maxFailures > 1
    /\ now > cb.lastFailureTime + cb.resetTimeout

(***************************************************************************)
(* Persist, then publish                                                   *)
(***************************************************************************)
\* a step in which the payment consumer handled the message at payPos
PayStep == payPos' = payPos + 1

\* C37: every payment_success or payment_failed event published by the payment
\* consumer is published only after the INSERT of its Payment row returned an id: at
\* every moment each such event on the bus has a Payment row with the same
\* paymentId, orderId and status; a handling whose INSERT fails publishes nothing, and
\* a handling whose publish fails leaves the row in place and still acknowledges
\* (marks) the message. Rows are never removed or changed.
C37_PersistBeforePublish ==
    /\ [](\A i \in PaymentEventsOnBus :
             /\ bus[i].eventType \in {"payment_success", "payment_failed"}
             /\ bus[i].paymentId \in 1..Len(payments)
             /\ payments[bus[i].paymentId].id = bus[i].paymentId
             /\ payments[bus[i].paymentId].orderId = bus[i].orderId
             /\ payments[bus[i].paymentId].status = bus[i].status)
    /\ [][/\ Len(payments') >= Len(payments)
          /\ \A i \in 1..Len(payments) : payments'[i] = payments[i]
          /\ (PayStep /\ bus' # bus)
                => /\ payments' # payments
                   /\ bus'[Len(bus')].paymentId = Len(payments')
          /\ (PayStep /\ payments' # payments /\ bus' = bus)
                => payMarked' > payPos]_vars

\* a row whose event was never published stands next to a row whose event is on the
\* bus, and both messages are acknowledged
C37_Witness ==
    /\ Len(payments) = 2
    /\ \E i \in PaymentEventsOnBus : bus[i].paymentId = 2
    /\ ~\E i \in PaymentEventsOnBus : bus[i].paymentId = 1
    /\ payMarked = payPos
    /\ payCommitted = payMarked

(***************************************************************************)
(* Retries of the notification consumer                                    *)
(***************************************************************************)
\* C38: the result of handling a notification message depends only on its payload,
\* so a retry never changes the outcome: a decodable message with a string
\* event_type succeeds on the first attempt and sends at most one notification per
\* delivery, and a message that fails once fails on every one of its attempts (it
\* uses all maxRetries attempts, ends in an error and sends nothing).
C38_RetryNeverChangesOutcome ==
    /\ \A i \in DOMAIN note.log :
          LET e == note.log[i]
          IN  /\ (e.payload.json /\ e.payload.eventType # NoEventType)
                    => (~e.err /\ e.attempts = 1 /\ Len(e.sent) <= 1)
              /\ e.attempts > 1 => (e.err /\ e.attempts = note.maxRetries)
              /\ e.err => (e.sent = <<>> /\ e.attempts = note.maxRetries)
              /\ e.err = notifyHandleMessage(e.payload).err
              /\ e.sent = notifyHandleMessage(e.payload).sent
    /\ (note.pc \in {"attempt", "backoff"} /\ note.tries >= 1)
          => (notifyHandleMessage(note.msgs[note.pos]).err /\ note.notified = <<>>)

\* one delivery has failed on each of several attempts and another has sent its one
\* notification on the first
C38_Witness ==
    \E i, j \in DOMAIN note.log :
        /\ note.log[i].err /\ note.log[i].attempts >= 2
        /\ ~note.log[j].err /\ note.log[j].attempts = 1 /\ Len(note.log[j].sent) = 1

(***************************************************************************)
(* Not-found lookups and the product breaker                               *)
(***************************************************************************)
\* the last request found the breaker Open with its reset timeout not yet elapsed
ProductOpenBefore ==
    /\ fn.status # 0
    /\ fn.cb0.state = StateOpen
    /\ Since(fn.cb0.lastFailureTime, fn.now0) <= fn.cb0.resetTimeout

\* every lookup that ran the SELECT and ended in an error, not-found included, was
\* counted as a failure of the breaker
ProductErrorsCounted ==
    (fn.queried /\ fn.status \in {404, 500})
        => /\ cb.lastFailureTime = fn.now0
           /\ cb.failureCount = (IF fn.cb0.state = StateOpen THEN 0 ELSE fn.cb0.failureCount) + 1

\* C39 as stated: every error of the breaker-wrapped lookup counts as a breaker
\* failure, not-found included; after maxFailures (5) consecutive cache-miss lookups
\* of non-existent products the breaker is Open, and a lookup of an existing product
\* within resetTimeout returns 503 without querying the database.
C39_OpenRejectsExistingProduct ==
    /\ ProductErrorsCounted
    /\ fn.run >= ProductMaxFailures => cb.state = StateOpen
    /\ (ProductOpenBefore /\ fn.id \in ExistingProducts)
          => (fn.status = 503 /\ ~fn.queried)

\* C39, amended: the same, for a lookup of an existing product that misses the cache;
\* a lookup that hits the cache is answered 200 from the cache whatever the state of
\* the breaker. In neither case is the database queried.
C39_OpenRejectsCacheMiss ==
    /\ ProductErrorsCounted
    /\ fn.run >= ProductMaxFailures => cb.state = StateOpen
    /\ (ProductOpenBefore /\ fn.id \in ExistingProducts)
          => /\ ~fn.queried
             /\ cb = fn.cb0
             /\ fn.status = IF fn.hit THEN 200 ELSE 503

\* five not-found lookups in a row have opened the breaker, and the lookup of an
\* existing product that followed within the reset timeout was answered 503
C39_Witness ==
    /\ ProductOpenBefore
    /\ fn.run = ProductMaxFailures
    /\ fn.cb0.failureCount = ProductMaxFailures
    /\ fn.id \in ExistingProducts
    /\ ~fn.hit
    /\ fn.status = 503

(***************************************************************************)
(* One breaker for CheckAvailability and GetProduct                        *)
(***************************************************************************)
\* the last call found the breaker Open with its reset timeout not yet elapsed
ClientOpenBefore ==
    /\ fn.cb0.state = StateOpen
    /\ Since(fn.cb0.lastFailureTime, fn.now0) <= fn.cb0.resetTimeout

\* C40: ProductClient uses one breaker for CheckAvailability and GetProduct: whichever
\* of the two the last call was, a failure added one to the failureCount the call
\* found (or made it 1 when the call was the probe of an Open breaker), a success
\* reset it to 0, and the call was rejected with ErrCircuitOpen, the breaker left as
\* it was, exactly when it found the breaker Open with the reset timeout not elapsed.
C40_OneBreakerForBothCalls ==
    fn.method \in {"CheckAvailability", "GetProduct"} =>
       /\ fn.err = ErrOperation
             => /\ cb.failureCount = (IF fn.cb0.state = StateOpen THEN 0
                                      ELSE fn.cb0.failureCount) + 1
                /\ cb.lastFailureTime = fn.now0
       /\ fn.err = NoError => (cb.failureCount = 0 /\ cb.state = StateClosed)
       /\ fn.err = ErrCircuitOpen <=> ClientOpenBefore
       /\ fn.err = ErrCircuitOpen => cb = fn.cb0

\* a failure of GetProduct has been added to a failure of CheckAvailability and
\* opened the breaker
C40_Witness ==
    /\ fn.method = "GetProduct" /\ fn.err = ErrOperation
    /\ fn.prev = "CheckAvailability" /\ fn.prevErr = ErrOperation
    /\ cb.failureCount = 2
    /\ cb.state = StateOpen

\* a CheckAvailability call is rejected because of a breaker that a failure of
\* GetProduct opened
C40_WitnessRejected ==
    /\ fn.method = "CheckAvailability" /\ fn.err = ErrCircuitOpen
    /\ fn.prev = "GetProduct" /\ fn.prevErr = ErrOperation

====
